---- MODULE Spec2Model ----
(***************************************************************************)
(* Model of fondabots-lib: the display channels (Affichan), the bounded    *)
(* undo history of the Bot and the date sort used to order new messages.   *)
(*                                                                         *)
(* The specifications share the variables:                                 *)
(*   Spec      the reconciliation engine (database, display channels,      *)
(*             the chat platform's messages and deletion notifications);   *)
(*   SpecUndo  the undo history (archive / annuler) over the database;     *)
(*   SpecHistory the undo history filled to its depth by change_field;     *)
(*   SpecOrder the first update_affichans over a database loaded from the  *)
(*             data file, the display channels being empty;                *)
(*   SpecInit  the setup: every display channel's init, from its saved    *)
(*             data or from the messages of its channel, then an update;   *)
(*   SpecRefresh the refresh_affichans command over filled channels;       *)
(*   SpecChannel the methods of one Affichan (update, up, remove, purge);  *)
(*   SpecFlight the calls of one channel the stream combinators keep in    *)
(*             flight;                                                     *)
(*   SpecJoin  update_affichans future by future, under try_join_all;      *)
(*   SpecLock  the maj command beside the other holders of the lock;       *)
(*   SpecStartup Bot::setup from the data file it finds, then the save;    *)
(*   SpecEvent the event handler on the interaction of a button;           *)
(*   SpecCommands the built-in commands that change the database;          *)
(*   SpecHandler the Bot's mutex in the event handler and the command      *)
(*             check, SpecHandlerFair with the fairness of the runtime;    *)
(*   SpecSnapshot one display channel saved and loaded again at a restart; *)
(*   SpecPages create_paged_list applied to bounded inputs;                *)
(*   SpecSort  sort_by_date and _sort_merge applied to bounded inputs.     *)
(***************************************************************************)
EXTENDS Integers, Sequences, FiniteSets, TLC

\* ------------------------------------------------------------------ bounds
MaxId == 3          \* entity ids are 1..MaxId
MaxInsertId == 2    \* Spec inserts the ids 1..MaxInsertId only (SpecOrder loads any id)
MaxDate == 3        \* dates (ordering keys) are 1..MaxDate
MaxInsertDate == 1  \* Spec inserts entities dated 1..MaxInsertDate only
MaxMsgs == 2        \* at most MaxMsgs messages are ever sent (message ids 1..MaxMsgs)
NbChans == 2        \* number of display channels
MaxOrderMsgs == 3   \* at most MaxOrderMsgs messages are ever sent in SpecOrder
MaxSortLen == 4     \* longest vector given to sort_by_date in SpecSort
MaxBatch == 2       \* longest id list given to archive in SpecUndo
MaxArchives == 2    \* SpecUndo archives while the history holds fewer batches
MaxVersion == 8     \* SpecHistory changes the field of an entity up to this value
MaxScan == 2        \* SpecInit: messages the display channels hold when the bot starts
MaxPairs == 2       \* SpecInit: entries of the saved data of a display channel
MaxSetupMsgs == 4   \* SpecInit: at most MaxSetupMsgs messages exist on the platform
MaxRefreshIds == 5  \* SpecRefresh: entities the display channels show together
MaxChannelMsgs == 2 \* SpecChannel: at most MaxChannelMsgs messages are ever sent
MaxFlightIds == 5   \* SpecFlight: the entities and messages of the channel
MaxFileEntries == 2 \* SpecStartup: entries of the data file
MaxPageObjects == 3 \* SpecPages: objects given to create_paged_list
MaxStrLen == 3      \* SpecPages: length of the string of an object
MaxCharLimit == 4   \* SpecPages: char_limit
MaxEventMsgs == 1   \* SpecEvent: at most MaxEventMsgs messages are ever sent
MaxEventArchives == 1 \* SpecEvent: the buttons archive while the history holds fewer batches
MaxNames == 2       \* SpecCommands: the names an entity can have
MaxCmdArchives == 1 \* SpecCommands: a command runs while the history holds fewer batches

\* -------------------------------------------------------- program constants
HistoryDepth == 5   \* lib.rs:493  self.history.len() >= 5
BufferSize == 4     \* affichan.rs:215  buffered(4)

Ids == 1..MaxId
Dates == 1..MaxDate
Chans == 1..NbChans
Mids == 1..MaxMsgs

VARIABLES
    database,          \* Bot.database: [Ids -> Entity \cup {None}]
    history,           \* Bot.history: sequence of batches, newest first
    update_affichans,  \* Bot.update_affichans flag
    messages,          \* Affichan.messages of each channel: [Chans -> [Ids -> Mids \cup {NoMsg}]]
    remote,            \* the chat platform: sequence of every message ever sent, Dead once deleted
    pending,           \* message ids whose MessageDelete event is not yet handled
    spawned,           \* deletions handed to tokio::spawn by update and not yet executed
    allOk,             \* no call made so far returned an error
    last,              \* observation of the last operation (what it was, what it issued)
    archived,          \* observation: the database as it was at each archive call still in history
    sortIn,            \* SpecSort: the vector given to sort_by_date
    sortOut,           \* SpecSort: [done, res], res the vector sort_by_date returned
    maj,               \* SpecLock: where the maj command stands, and its taille_ancienne
    data_file,         \* the save file Bot.data_file names, as the last write left it
    lock               \* SpecHandler: the Bot's mutex: the task that holds it, and where
                       \* each task that takes it stands

vars == <<database, history, update_affichans, messages, remote, pending, spawned,
          allOk, last, archived, sortIn, sortOut, maj,
                   data_file, lock>>

None == [none |-> TRUE]   \* Option::None
NoMaj == [pc |-> "idle", taille_ancienne |-> 0]   \* the maj command is not running
NoFile == [kind |-> "absent"]   \* there is no save file
\* The tasks that take the Bot's mutex in the handling of an event or of a command
\* check: the framework's event_handler closure and CommandData::check, and the
\* functions of the bot's author they call, Bot.event_handler and Bot.command_checker.
Framework == {"event", "check"}
User(t) == IF t = "event" THEN "event_handler" ELSE "command_checker"
Tasks == Framework \cup {User(t) : t \in Framework}
NoLock == [holder |-> "none", pc |-> [t \in Tasks |-> "idle"]]   \* the mutex is free
NoMsg == 0          \* the id is not a key of Affichan.messages
Dead == [chan |-> 0, id |-> 0]   \* a message that no longer exists on the platform

\* ------------------------------------------------------------ sequences
Last(s) == s[Len(s)]
Front(s) == SubSeq(s, 1, Len(s) - 1)
Reverse(s) == [i \in 1..Len(s) |-> s[Len(s) + 1 - i]]
Range(s) == {s[i] : i \in 1..Len(s)}

\* --------------------------------------------------------------- tools.rs
\* A vector element (&u64, &T) is kept as [id, date]: get_date is all the sort reads.

\* fn _sort_merge(a, b): while one of the vectors is not empty, when both have a last
\* element push the pop of the one whose last date is strictly greater (else b's);
\* otherwise pop what is left of the non-empty one, last element first.
RECURSIVE _sort_merge(_, _)
_sort_merge(a, b) ==
    IF a = <<>> /\ b = <<>> THEN <<>>
    ELSE IF a # <<>> /\ b # <<>>
         THEN IF Last(a).date > Last(b).date
              THEN <<Last(a)>> \o _sort_merge(Front(a), b)
              ELSE <<Last(b)>> \o _sort_merge(a, Front(b))
         ELSE Reverse(IF a = <<>> THEN b ELSE a)

\* pub fn sort_by_date(v): v when v.len() <= 1, else the merge of the sorted halves
\* v[..len/2] and v[len/2..].
RECURSIVE sort_by_date(_)
sort_by_date(v) ==
    IF Len(v) <= 1 THEN v
    ELSE _sort_merge(sort_by_date(SubSeq(v, 1, Len(v) \div 2)),
                    sort_by_date(SubSeq(v, Len(v) \div 2 + 1, Len(v))))

\* ------------------------------------------------------------ entities
\* An Object is kept as its date (get_date), its modified flag (is_modified) and one
\* field, shown, that the channels' tests read.
Entity == [date : Dates, shown : BOOLEAN, modified : BOOLEAN]

\* The tests given to Affichan::new by the bot's author: channel 1 lists the entities
\* whose field is set, channel 2 those whose field is not set, any further channel all.
UserTest(c, e) == CASE c = 1 -> e.shown
                    [] c = 2 -> ~e.shown
                    [] OTHER -> TRUE

\* Affichan.test as Affichan::new builds it: false on None, the given test otherwise.
Test(c, e) == IF e = None THEN FALSE ELSE UserTest(c, e)

\* ------------------------------------------------------- chat platform
NextMid(rem) == Len(rem) + 1
IsLive(rem, m) == m \in 1..Len(rem) /\ rem[m] # Dead
\* Message::delete: succeeds exactly when the message still exists; the platform then
\* raises a MessageDelete event for it.
DeleteOk(rem, m) == IsLive(rem, m)
AfterDelete(rem, m) == IF IsLive(rem, m) THEN [rem EXCEPT ![m] = Dead] ELSE rem
\* A message of the bot is [chan, id], id the entity id its footer carries (0: none); a
\* message of somebody else carries the field author.
ByBot(msg) == "author" \notin DOMAIN msg
\* Message::edit: succeeds exactly when the message still exists and is the bot's.
EditOk(rem, m) == IsLive(rem, m) /\ ByBot(rem[m])
\* GuildChannel::message: the fetch succeeds exactly when the channel holds the message.
FetchOk(rem, c, m) == IsLive(rem, m) /\ rem[m].chan = c
\* The live messages of channel c that carry entity id in their footer.
LiveOf(rem, c, id) == {m \in 1..Len(rem) : rem[m] = [chan |-> c, id |-> id]}

\* ------------------------------------------------- Affichan::update
\* An edit phase that edits every indexed entity that passes the test, modified or not.
EditSet_unmodified(c, idx, db) ==
    {id \in Ids : idx[id] # NoMsg /\ Test(c, db[id]) /\ db[id] # None}

\* _edit_messages_if_modified: the ids it calls Message::edit for.
EditSet(c, idx, db) ==
    {id \in Ids : idx[id] # NoMsg /\ Test(c, db[id]) /\ db[id] # None /\ db[id].modified}

\* _edit_messages_if_modified: the ids whose edit failed.
_edit_messages_if_modified(c, idx, db, rem) ==
    {id \in EditSet(c, idx, db) : ~EditOk(rem, idx[id])}

\* A retain that forgets the test: it keeps every id still in the database.
Keep_untested(c, idx, db, edit_fails) ==
    {id \in Ids : idx[id] # NoMsg /\ db[id] # None /\ id \notin edit_fails}

\* A retain that keeps the ids whose edit failed.
Keep_editFailed(c, idx, db, edit_fails) ==
    {id \in Ids : idx[id] # NoMsg /\ db[id] # None /\ Test(c, db[id])}

\* The retain of update: the ids kept in Affichan.messages.
Keep(c, idx, db, edit_fails) ==
    {id \in Ids : idx[id] # NoMsg /\ db[id] # None /\ Test(c, db[id]) /\ id \notin edit_fails}

\* Affichan.messages after the retain of update.
Retained(c, idx, db, rem) ==
    [id \in Ids |-> IF id \in Keep(c, idx, db, _edit_messages_if_modified(c, idx, db, rem))
                    THEN idx[id] ELSE NoMsg]

\* A selection that skips the entities flagged modified.
_get_new_valid_objects_unmodified(c, idx, db, order) ==
    LET sel == SelectSeq(order, LAMBDA id : Test(c, db[id]) /\ idx[id] = NoMsg
                                             /\ ~db[id].modified)
    IN  [i \in 1..Len(sel) |-> [id |-> sel[i], date |-> db[sel[i]].date]]

\* _get_new_valid_objects_from_db: the entities of the database, in the map's iteration
\* order, that pass the test and are not a key of Affichan.messages.
_get_new_valid_objects_from_db(c, idx, db, order) ==
    LET sel == SelectSeq(order, LAMBDA id : Test(c, db[id]) /\ idx[id] = NoMsg)
    IN  [i \in 1..Len(sel) |-> [id |-> sel[i], date |-> db[sel[i]].date]]

\* The order in which update builds the send futures: sort_by_date(...).into_iter().rev().
SendOrder(c, idx, db, order) ==
    Reverse(sort_by_date(_get_new_valid_objects_from_db(c, idx, db, order)))

\* The outcomes of the buffered(4).try_collect of n sends: fail = 0 when every send
\* succeeds; otherwise send number fail is the first to fail, the sends before it
\* succeeded, and each of the sends that were in the buffer with it (extra) may have
\* reached the platform before the stream was dropped.
Min(a, b) == IF a <= b THEN a ELSE b
SendOutcomes(n) ==
    {[fail |-> 0, extra |-> {}]} \cup
    UNION {{[fail |-> k, extra |-> x] : x \in SUBSET ((k + 1)..Min(n, k + BufferSize - 1))}
           : k \in 1..n}

\* Affichan::update on channel c, whose Affichan.messages is idx, against the database
\* db iterated in the order `order`, the platform holding rem, the sends ending as o.
\* Phase 1 edits the modified entities; the retain drops the ids that are no longer in
\* the database, fail the test or failed their edit, and hands their messages to a
\* spawned deletion task; then the new valid entities are sent, and Affichan.messages
\* is extended with all of them only if every send succeeded.
UpdateWith(c, idx, rem, db, order, o) ==
    LET edit_fails == _edit_messages_if_modified(c, idx, db, rem)
        keep == Keep(c, idx, db, edit_fails)
        retained == Retained(c, idx, db, rem)
        deleted_elements == {idx[id] : id \in {i \in Ids : idx[i] # NoMsg} \ keep}
        toSend == SendOrder(c, retained, db, order)
        n == Len(toSend)
        sentPos == IF o.fail = 0 THEN 1..n ELSE (1..(o.fail - 1)) \cup o.extra
        sent == SelectSeq([i \in 1..n |-> i], LAMBDA i : i \in sentPos)
        issuedLen == IF o.fail = 0 THEN n ELSE Min(n, o.fail + BufferSize - 1)
    IN  [ idx |-> IF o.fail = 0
                  THEN [id \in Ids |->
                          IF \E i \in 1..n : toSend[i].id = id
                          THEN Len(rem) + (CHOOSE i \in 1..n : toSend[i].id = id)
                          ELSE retained[id]]
                  ELSE retained,
          rem |-> rem \o [i \in 1..Len(sent) |-> [chan |-> c, id |-> toSend[sent[i]].id]],
          deleted |-> deleted_elements,
          res |-> IF o.fail = 0 THEN "ok" ELSE "err",
          edits |-> EditSet(c, idx, db),
          issued |-> [i \in 1..issuedLen |-> toSend[i]],
          edit_fails |-> edit_fails,
          error |-> IF o.fail = 0 THEN 0 ELSE toSend[o.fail].id ]

\* An update that returns an error when an edit failed.
update_editFatal(c, idx, rem, db, order) ==
    {[u EXCEPT !.res = IF u.edit_fails # {} THEN "err" ELSE u.res] :
        u \in {UpdateWith(c, idx, rem, db, order, o) :
                 o \in SendOutcomes(Len(SendOrder(c, Retained(c, idx, db, rem), db, order)))}}

\* Every way Affichan::update can end on channel c.
update(c, idx, rem, db, order) ==
    {UpdateWith(c, idx, rem, db, order, o) :
        o \in SendOutcomes(Len(SendOrder(c, Retained(c, idx, db, rem), db, order)))}

\* -------------------------------------------- Bot::update_affichans
\* The state a call works on: every channel's Affichan.messages, the platform, the
\* spawned deletions, and what the call did so far in each channel.
NoRun == [c \in Chans |-> [res |-> "none", edits |-> {}, issued |-> <<>>]]
Work(msgs, rem, spw) == [messages |-> msgs, rem |-> rem, spawned |-> spw, run |-> NoRun]

\* try_join_all over the channels' update, from channel c on.
RECURSIVE UpdateFrom(_, _, _, _)
UpdateFrom(c, w, db, order) ==
    IF c > NbChans THEN {w}
    ELSE UNION {
        UpdateFrom(c + 1,
                   [ messages |-> [w.messages EXCEPT ![c] = r.idx],
                     rem |-> r.rem,
                     spawned |-> w.spawned \cup r.deleted,
                     run |-> [w.run EXCEPT ![c] =
                                [res |-> r.res, edits |-> r.edits, issued |-> r.issued]] ],
                   db, order)
        : r \in update(c, w.messages[c], w.rem, db, order)}

\* The iteration orders database.iter() can have: the permutations of its keys.
Keys(db) == {id \in Ids : db[id] # None}
Orders(db) ==
    {o \in [1..Cardinality(Keys(db)) -> Keys(db)] :
        \A i, j \in 1..Cardinality(Keys(db)) : i # j => o[i] # o[j]}

\* Every way Bot::update_affichans can end, whatever the iteration order of the map.
update_affichans_outcomes(msgs, rem, spw, db) ==
    UNION {UpdateFrom(1, Work(msgs, rem, spw), db, order) : order \in Orders(db)}

\* A try_join_all that is satisfied as soon as the first channel's update returned Ok.
AllRan_first(w) == w.run[1].res = "ok"

AllRan(w) == \A c \in Chans : w.run[c].res = "ok"

\* An update_affichans that leaves the flags as they are.
ClearModified_never(db) == db

\* self.database.iter_mut().for_each(|(_, ecrit)| ecrit.set_modified(false))
ClearModified(db) ==
    [id \in Ids |-> IF db[id] = None THEN None ELSE [db[id] EXCEPT !.modified = FALSE]]


\* ------------------------------------ Affichan::check_message_deletion
\* The find over Affichan.messages: the ids whose message is message_id.
Deleted(idx, message_id) == {id \in Ids : idx[id] = message_id}

\* A check_message_deletion that reports ObjectNotFound when the find has no result.
check_message_deletion_strict(c, idx, rem, db, message_id) ==
    IF Deleted(idx, message_id) = {} \/ db[CHOOSE id \in Deleted(idx, message_id) : TRUE] = None
    THEN {[idx |-> idx, rem |-> rem, res |-> "err", fresh |-> NoMsg]}
    ELSE {[idx |-> idx,
           rem |-> rem \o <<[chan |-> c, id |-> CHOOSE id \in Deleted(idx, message_id) : TRUE]>>,
           res |-> "ok", fresh |-> NextMid(rem)],
          [idx |-> idx, rem |-> rem, res |-> "err", fresh |-> NoMsg]}

\* Every way check_message_deletion can end on channel c: nothing when no message of
\* the channel has this id; ObjectNotFound when the entity is gone; otherwise one
\* send_message, whose result is dropped (&self: Affichan.messages is not written).
check_message_deletion(c, idx, rem, db, message_id) ==
    IF Deleted(idx, message_id) = {}
    THEN {[idx |-> idx, rem |-> rem, res |-> "ok", fresh |-> NoMsg]}
    ELSE LET object_id == CHOOSE id \in Deleted(idx, message_id) : TRUE
         IN  IF db[object_id] = None
             THEN {[idx |-> idx, rem |-> rem, res |-> "err", fresh |-> NoMsg]}
             ELSE {[idx |-> idx, rem |-> rem \o <<[chan |-> c, id |-> object_id]>>,
                    res |-> "ok", fresh |-> NextMid(rem)],
                   [idx |-> idx, rem |-> rem, res |-> "err", fresh |-> NoMsg]}

\* Bot::check_deletions: try_join_all over the channels' check_message_deletion.
\* w.ok: every channel returned Ok; w.fresh: the messages they sent.
RECURSIVE check_deletions(_, _, _, _)
check_deletions(c, w, db, message_id) ==
    IF c > NbChans THEN {w}
    ELSE UNION {
        check_deletions(c + 1,
            [ messages |-> [w.messages EXCEPT ![c] = r.idx],
              rem |-> r.rem,
              ok |-> w.ok /\ r.res = "ok",
              fresh |-> IF r.fresh = NoMsg THEN w.fresh ELSE w.fresh \cup {r.fresh} ],
            db, message_id)
        : r \in check_message_deletion(c, w.messages[c], w.rem, db, message_id)}

CheckWork(msgs, rem) == [messages |-> msgs, rem |-> rem, ok |-> TRUE, fresh |-> {}]

\* ------------------------------------------------------------ observation
\* What the last operation was and did; it is written by every action and read by the
\* properties only.
\*   op, res   the operation and its result
\*   base      the number of messages the platform had ever received before it
\*   ran       the channels whose Affichan::update returned Ok in it
\*   edited    the channels in which it called Message::edit
\*   moved     the channels whose Affichan.messages it changed
\*   prev      the channels whose Affichan::update returned Ok in the operation before
\*   held      the channels whose Affichan.messages held the deleted message
\*   checked   check_deletions returned Ok
\*   fresh     the messages check_deletions sent
\*   stale     the channels of held that still map the entity to the deleted message
\*             when check_deletions returns
\*   kept      check_deletions left every Affichan.messages as it was
NoPass == [ran |-> {}, edited |-> {}]
NoCheck == [held |-> {}, checked |-> TRUE, fresh |-> {}, stale |-> {}, kept |-> TRUE]
Obs(op, res, base, pass, moved, prev, check) ==
    [op |-> op, res |-> res, base |-> base, ran |-> pass.ran, edited |-> pass.edited,
     moved |-> moved, prev |-> prev, held |-> check.held, checked |-> check.checked,
     fresh |-> check.fresh, stale |-> check.stale, kept |-> check.kept]
Quiet(op) == Obs(op, "ok", Len(remote), NoPass, {}, {}, NoCheck)

\* What check_deletions, ending as k, did with the deleted message m.
Held(msgs, m) == {c \in Chans : \E id \in Ids : msgs[c][id] = m}
Checked(msgs, m, k) ==
    [held |-> Held(msgs, m), checked |-> k.ok, fresh |-> k.fresh,
     stale |-> {c \in Chans : \E id \in Ids : msgs[c][id] = m /\ k.messages[c][id] \notin k.fresh},
     kept |-> k.messages = msgs]

Ran(w) == {c \in Chans : w.run[c].res = "ok"}
Pass(w) == [ran |-> Ran(w), edited |-> {c \in Chans : w.run[c].edits # {}}]
Moved(old, new) == {c \in Chans : old[c] # new[c]}

NotSorted == [done |-> FALSE, res |-> <<>>]

SortInputs ==
    UNION {{[i \in 1..n |-> [id |-> i, date |-> d[i]]] : d \in [1..n -> Dates]}
           : n \in 0..MaxSortLen}

IdleBot ==
    /\ database = [i \in Ids |-> None]
    /\ history = <<>>
    /\ update_affichans = FALSE
    /\ messages = [c \in Chans |-> [i \in Ids |-> NoMsg]]
    /\ remote = <<>>
    /\ pending = {}
    /\ spawned = {}
    /\ allOk = TRUE
    /\ last = Obs("init", "ok", 0, NoPass, {}, {}, NoCheck)
    /\ archived = <<>>
    /\ maj = NoMaj
    /\ data_file = NoFile
    /\ lock = NoLock

botVars == <<database, history, update_affichans, messages, remote, pending, spawned,
             allOk, last, archived, maj, data_file, lock>>

\* ----------------------------------------------------------------- Spec
Init ==
    /\ IdleBot
    /\ sortIn = <<>>
    /\ sortOut = NotSorted

\* The update_affichans command: Bot::update_affichans under the lock. The flags are
\* cleared only when every channel's update returned Ok. The platform has received at
\* most cap messages when it ends; the observation of the call carries the fields of
\* note besides its own. RunUpdateAffichans is the call, from whichever command.
RunUpdateAffichans(cap, note) ==
    \E w \in update_affichans_outcomes(messages, remote, spawned, database) :
        /\ Len(w.rem) <= cap
        /\ messages' = w.messages
        /\ remote' = w.rem
        /\ spawned' = w.spawned
        /\ database' = IF AllRan(w) THEN ClearModified(database) ELSE database
        /\ allOk' = (allOk /\ AllRan(w))
        /\ last' = Obs("update_affichans", IF AllRan(w) THEN "ok" ELSE "err", Len(remote),
                       Pass(w), Moved(messages, w.messages), last.ran, NoCheck) @@ note
        /\ UNCHANGED <<history, update_affichans, pending, archived, sortIn, sortOut,
                       data_file, lock>>

UpdateAffichansNoting(cap, note) == RunUpdateAffichans(cap, note) /\ UNCHANGED maj

UpdateAffichansWithin(cap) == UpdateAffichansNoting(cap, [op |-> "update_affichans"])

UpdateAffichans == UpdateAffichansWithin(MaxMsgs)

\* The framework's event_handler on FullEvent::MessageDelete: check_deletions, then
\* the deferred update_affichans when the flag is set, which resets the flag on success.
\* The platform has received at most cap messages when it ends.
OnMessageDelete(deleted_message_id, cap) ==
    /\ deleted_message_id \in pending
    /\ pending' = pending \ {deleted_message_id}
    /\ \E k \in check_deletions(1, CheckWork(messages, remote), database, deleted_message_id) :
         IF ~k.ok
         THEN /\ Len(k.rem) <= cap
              /\ messages' = k.messages
              /\ remote' = k.rem
              /\ allOk' = FALSE
              /\ last' = Obs("message_delete", "err", Len(remote), NoPass,
                             Moved(messages, k.messages), {},
                             Checked(messages, deleted_message_id, k))
              /\ UNCHANGED <<database, update_affichans, spawned>>
         ELSE IF update_affichans
         THEN \E w \in update_affichans_outcomes(k.messages, k.rem, spawned, database) :
                 /\ Len(w.rem) <= cap
                 /\ messages' = w.messages
                 /\ remote' = w.rem
                 /\ spawned' = w.spawned
                 /\ database' = IF AllRan(w) THEN ClearModified(database) ELSE database
                 /\ update_affichans' = ~AllRan(w)
                 /\ allOk' = (allOk /\ AllRan(w))
                 /\ last' = Obs("message_delete", IF AllRan(w) THEN "ok" ELSE "err",
                                Len(remote), Pass(w), Moved(messages, w.messages), {},
                                Checked(messages, deleted_message_id, k))
         ELSE /\ Len(k.rem) <= cap
              /\ messages' = k.messages
              /\ remote' = k.rem
              /\ last' = Obs("message_delete", "ok", Len(remote), NoPass,
                             Moved(messages, k.messages), {},
                             Checked(messages, deleted_message_id, k))
              /\ UNCHANGED <<database, update_affichans, spawned, allOk>>
    /\ UNCHANGED <<history, archived, sortIn, sortOut, maj,
                   data_file>>

HandleMessageDelete(deleted_message_id) ==
    OnMessageDelete(deleted_message_id, MaxMsgs) /\ UNCHANGED lock

\* A member of the server deletes a message of a display channel by hand.
ExternalDelete(m) ==
    /\ IsLive(remote, m)
    /\ remote' = AfterDelete(remote, m)
    /\ pending' = pending \cup {m}
    /\ last' = Quiet("other")
    /\ UNCHANGED <<database, history, update_affichans, messages, spawned, allOk, archived,
                   sortIn, sortOut, maj,
                   data_file, lock>>

\* The task spawned by update deletes one of the messages the retain dropped; the
\* result of Message::delete is discarded.
SpawnedDelete(m) ==
    /\ m \in spawned
    /\ spawned' = spawned \ {m}
    /\ remote' = AfterDelete(remote, m)
    /\ pending' = IF DeleteOk(remote, m) THEN pending \cup {m} ELSE pending
    /\ last' = Quiet("other")
    /\ UNCHANGED <<database, history, update_affichans, messages, allOk, archived,
                   sortIn, sortOut, maj,
                   data_file, lock>>

\* The owner of the database (a command, Object::buttons, Object::maj_rss) inserts an
\* entity, sets a field of one and flags it modified, or removes one.
DbInsert(id, e) ==
    /\ database[id] = None
    /\ database' = [database EXCEPT ![id] = e]
    /\ last' = Quiet("other")
    /\ UNCHANGED <<history, update_affichans, messages, remote, pending, spawned, allOk,
                   archived, sortIn, sortOut, maj,
                   data_file, lock>>

DbModify(id, shown) ==
    /\ database[id] # None
    /\ database[id].shown # shown \/ ~database[id].modified
    /\ database' = [database EXCEPT ![id] = [@ EXCEPT !.shown = shown, !.modified = TRUE]]
    /\ last' = Quiet("other")
    /\ UNCHANGED <<history, update_affichans, messages, remote, pending, spawned, allOk,
                   archived, sortIn, sortOut, maj,
                   data_file, lock>>

DbRemove(id) ==
    /\ database[id] # None
    /\ database' = [database EXCEPT ![id] = None]
    /\ last' = Quiet("other")
    /\ UNCHANGED <<history, update_affichans, messages, remote, pending, spawned, allOk,
                   archived, sortIn, sortOut, maj,
                   data_file, lock>>

\* Bot.update_affichans is public: the owner's code sets it to ask for the deferred
\* update at the end of the next event.
SetUpdateFlag ==
    /\ ~update_affichans
    /\ update_affichans' = TRUE
    /\ last' = Quiet("other")
    /\ UNCHANGED <<database, history, messages, remote, pending, spawned, allOk, archived,
                   sortIn, sortOut, maj,
                   data_file, lock>>

Inserted == [date : 1..MaxInsertDate, shown : BOOLEAN, modified : {FALSE}]

Next ==
    \/ UpdateAffichans
    \/ \E m \in Mids : HandleMessageDelete(m)
    \/ \E m \in Mids : ExternalDelete(m)
    \/ \E m \in Mids : SpawnedDelete(m)
    \/ \E id \in 1..MaxInsertId : \E e \in Inserted : DbInsert(id, e)
    \/ \E id \in Ids : \E shown \in BOOLEAN : DbModify(id, shown)
    \/ \E id \in Ids : DbRemove(id)
    \/ SetUpdateFlag

Spec == Init /\ [][Next]_vars

\* ------------------------------------------------------ properties of Spec
\* The operations that run Bot::update_affichans.
UpdatePass == last.op \in {"update_affichans", "message_delete"}
\* The messages of channel c sent by the last operation.
SentIn(c) == {m \in (last.base + 1)..Len(remote) : remote[m] # Dead /\ remote[m].chan = c}
\* The bot is at rest after a successful update_affichans: no call has failed so far,
\* every deletion notification has been handled and no spawned deletion is left.
Quiescent ==
    /\ last.op = "update_affichans" /\ last.res = "ok"
    /\ allOk /\ pending = {} /\ spawned = {}

\* C1: at quiescence, after any sequence of successful calls, each display channel
\* holds exactly one live message for every entity of the database that passes the
\* channel's test, and no live message for any other entity id.
C1_ExactlyOneLiveMessage ==
    Quiescent => \A c \in Chans : \A id \in Ids :
        Cardinality(LiveOf(remote, c, id)) = IF Test(c, database[id]) THEN 1 ELSE 0

\* C2: coverage. Whenever Affichan::update returns success on a channel, every entity
\* of the database that passes the channel's test is a key of Affichan.messages.
C2_Coverage ==
    UpdatePass => \A c \in last.ran : \A id \in Ids :
        Test(c, database[id]) => messages[c][id] # NoMsg

\* A successful update that had to send a message for an entity passing the test.
C2_Witness ==
    /\ last.op = "update_affichans"
    /\ \E c \in last.ran : \E id \in Ids :
          Test(c, database[id]) /\ messages[c][id] > last.base

\* C3: exclusion. Whenever Affichan::update returns success on a channel, every key of
\* Affichan.messages is a key of the database and its entity passes the channel's test.
C3_Exclusion ==
    UpdatePass => \A c \in last.ran : \A id \in Ids :
        messages[c][id] # NoMsg => database[id] # None /\ Test(c, database[id])

\* A successful update whose retain dropped an id (its message went to the spawned
\* deletion) while the entity is still in the database.
C3_Witness ==
    /\ last.op = "update_affichans"
    /\ \E c \in last.ran \cap last.moved : \E id \in Ids :
          /\ database[id] # None /\ ~Test(c, database[id])
          /\ messages[c][id] = NoMsg
          /\ \E m \in spawned : m <= last.base

C7_DeletionReplacesHandle ==
    (last.op = "message_delete" /\ last.checked /\ last.held # {}) =>
        /\ Cardinality(last.fresh) = Cardinality(last.held)
        /\ last.stale = {}

\* C8: when check_message_deletion is called with a message id that matches no entry
\* of any channel's Affichan.messages, it sends nothing, returns success and leaves
\* Affichan.messages and the database unchanged.
C8_NoMatchIsNoOp ==
    (last.op = "message_delete" /\ last.held = {}) =>
        last.checked /\ last.fresh = {} /\ last.kept

\* The notification of a message no channel maps any more is handled while a channel
\* still shows another entity.
C8_Witness ==
    /\ last.op = "message_delete" /\ last.held = {}
    /\ \E c \in Chans : \E id \in Ids : messages[c][id] # NoMsg

\* C34: after Bot::update_affichans returns success every entity of the database has
\* modified = false, every channel's update has returned Ok, and every channel that
\* displayed a modified entity called Message::edit while the flags were still up; when
\* it returns an error the database, flags included, is what it was before the call.
C34_FlagsClearedOnlyOnSuccess ==
    [][last'.op = "update_affichans" =>
        IF last'.res = "ok"
        THEN /\ \A id \in Ids : database'[id] # None =>
                    database'[id] = [database[id] EXCEPT !.modified = FALSE]
             /\ \A id \in Ids : database'[id] = None <=> database[id] = None
             /\ last'.ran = Chans
             /\ last'.edited = {c \in Chans : EditSet(c, messages[c], database) # {}}
        ELSE database' = database]_vars

\* A successful update_affichans that edited a message in every channel, the flags
\* being down when it returns.
C34_Witness ==
    /\ last.op = "update_affichans" /\ last.res = "ok"
    /\ last.edited = Chans
    /\ \A id \in Ids : database[id] # None => ~database[id].modified

\* ------------------------------------------------------------- SpecUndo
\* Bot.history is a sequence of batches, the most recent first; a batch is the sequence
\* of the (id, Option<T>) pairs of one archive call.

\* The map of archive: each id with a clone of its entity, or None when it has none.
Snapshot(db, ids) == [i \in 1..Len(ids) |-> [id |-> ids[i], ecrit |-> db[ids[i]]]]

\* A push_front that lets the history grow to one batch more before it pops.
PushFront_late(hist, batch) ==
    <<batch>> \o (IF Len(hist) > HistoryDepth THEN Front(hist) ELSE hist)

\* A push_front that discards the newest batch of a full history instead of the oldest.
PushFront_dropsNewest(hist, batch) ==
    <<batch>> \o (IF Len(hist) >= HistoryDepth THEN Tail(hist) ELSE hist)

\* The history after a push_front of `batch`: the oldest batch is popped first when the
\* history already holds HistoryDepth batches.
PushFront(hist, batch) ==
    <<batch>> \o (IF Len(hist) >= HistoryDepth THEN Front(hist) ELSE hist)

\* An archive that pushes a batch for an empty id list too.
archive_always(hist, db, ids) == PushFront(hist, Snapshot(db, ids))

\* Bot::archive on the history.
archive(hist, db, ids) == IF ids # <<>> THEN PushFront(hist, Snapshot(db, ids)) ELSE hist

\* An undo that restores the entity as it was saved, flag included.
RestoreEntry_asSaved(db, entry) ==
    IF entry.ecrit # None THEN [db EXCEPT ![entry.id] = entry.ecrit]
    ELSE [db EXCEPT ![entry.id] = None]

\* An undo that skips the ids that had no entity.
RestoreEntry_keepsCreated(db, entry) ==
    IF entry.ecrit # None
    THEN [db EXCEPT ![entry.id] = [entry.ecrit EXCEPT !.modified = TRUE]]
    ELSE db

\* The closure of annuler on one pair: Some(e) inserts a clone of e and flags it
\* modified, None removes the id.
RestoreEntry(db, entry) ==
    IF entry.ecrit # None
    THEN [db EXCEPT ![entry.id] = [entry.ecrit EXCEPT !.modified = TRUE]]
    ELSE [db EXCEPT ![entry.id] = None]

\* Bot::annuler on the database: edit.iter().for_each over the popped batch.
RECURSIVE annuler(_, _)
annuler(db, edit) ==
    IF edit = <<>> THEN db ELSE annuler(RestoreEntry(db, Head(edit)), Tail(edit))

\* The id lists given to archive.
Batches == UNION {[1..n -> 1..MaxInsertId] : n \in 0..MaxBatch}

\* A command calls Bot::archive(ids) before it changes the entities. `archived` keeps,
\* for every batch of the history, the database as it was when archive was called.
Archive(ids) ==
    /\ Len(history) < MaxArchives
    /\ history' = archive(history, database, ids)
    /\ archived' = IF ids # <<>> THEN PushFront(archived, database) ELSE archived
    /\ update_affichans' = TRUE
    /\ last' = Quiet("archive")
    /\ UNCHANGED <<database, messages, remote, pending, spawned, allOk, sortIn, sortOut, maj,
                   data_file, lock>>

\* A pop_front that leaves the batch in the history.
pop_front_keeps(hist) ==
    IF hist # <<>> THEN [some |-> TRUE, edit |-> Head(hist), rest |-> hist]
    ELSE [some |-> FALSE, edit |-> <<>>, rest |-> hist]

\* self.history.pop_front(): Some(edit) and the rest of the history, or None.
pop_front(hist) ==
    IF hist # <<>> THEN [some |-> TRUE, edit |-> Head(hist), rest |-> Tail(hist)]
    ELSE [some |-> FALSE, edit |-> <<>>, rest |-> hist]

\* The numbers of archive calls with a non-empty id list, and of annuler calls that
\* returned true, made in a row up to the last operation.
Pushes(l) == IF "pushes" \in DOMAIN l THEN l.pushes ELSE 0
Undos(l) == IF "undos" \in DOMAIN l THEN l.undos ELSE 0

\* Bot::annuler. The observation keeps the ids of the undone batch, the database as it
\* was when the batch was archived (at) and as it was before the undo (before), the
\* length of the history (depth) and the flag before the call.
Annuler ==
    LET p == pop_front(history)
    IN  /\ IF p.some
           THEN /\ database' = annuler(database, p.edit)
                /\ history' = p.rest
                /\ archived' = Tail(archived)
                /\ update_affichans' = TRUE
           ELSE UNCHANGED <<database, history, archived, update_affichans>>
        /\ last' = [op |-> "annuler", res |-> p.some,
                    ids |-> {p.edit[i].id : i \in 1..Len(p.edit)},
                    at |-> IF p.some THEN Head(archived) ELSE database,
                    before |-> database, depth |-> Len(history),
                    flag |-> update_affichans, pushes |-> 0,
                    undos |-> IF p.some THEN Undos(last) + 1 ELSE Undos(last)]
        /\ UNCHANGED <<messages, remote, pending, spawned, allOk, sortIn, sortOut, maj,
                   data_file, lock>>

NextUndo ==
    \/ \E ids \in Batches : Archive(ids)
    \/ Annuler
    \/ \E id \in 1..MaxInsertId : \E e \in Inserted : DbInsert(id, e)
    \/ \E id \in Ids : \E shown \in BOOLEAN : DbModify(id, shown)
    \/ \E id \in Ids : DbRemove(id)

SpecUndo == Init /\ [][NextUndo]_vars

Undone == last.op = "annuler" /\ last.res

\* C9: undo round-trip. archive([id]) of an existing entity, any mutation or deletion
\* of it, then annuler leaves the database holding at id the value it had when archive
\* was called, with its modified flag true; the ids that are not in the undone batch
\* are unchanged by annuler.
C9_UndoRoundTrip ==
    Undone => \A id \in Ids :
        /\ (id \in last.ids /\ last.at[id] # None) =>
              database[id] = [last.at[id] EXCEPT !.modified = TRUE]
        /\ id \notin last.ids => database[id] = last.before[id]

\* An undo of a batch holding an entity that was changed or removed after the archive,
\* while another entity stays out of the batch.
C9_Witness ==
    /\ Undone
    /\ \E id \in last.ids : last.at[id] # None /\ last.before[id] # last.at[id]
                            /\ last.before[id] # database[id]
    /\ \E id \in Ids \ last.ids : database[id] # None

\* C10: undo of creation. archive([id]) of an id absent from the database, an insert at
\* id, then annuler leaves the database without the key id.
C10_UndoOfCreation ==
    Undone => \A id \in last.ids : last.at[id] = None => database[id] = None

\* An undo of a batch archived before its id was inserted.
C10_Witness ==
    Undone /\ \E id \in last.ids : last.at[id] = None /\ last.before[id] # None

\* C14: annuler called on an empty history returns false and leaves the database, the
\* history and the update_affichans flag unchanged; annuler that returns true removes
\* exactly one batch from the history and sets the flag.
C14_AnnulerOnEmptyHistory ==
    last.op = "annuler" =>
        /\ last.res = (last.depth > 0)
        /\ ~last.res => /\ database = last.before /\ history = <<>>
                        /\ update_affichans = last.flag
        /\ last.res => Len(history) = last.depth - 1 /\ update_affichans

\* annuler returned false on a database that holds an entity, the flag being down.
C14_Witness ==
    /\ last.op = "annuler" /\ ~last.res /\ ~update_affichans
    /\ \E id \in Ids : database[id] # None

\* ---------------------------------------------------------- SpecHistory
\* The bot holds one entity, loaded from the data file. The change_field command
\* archives it, sets its field to the next value and flags it modified, so that every
\* batch of the history holds a different value; annuler undoes the changes.
LoadEntity ==
    /\ database[1] = None
    /\ \E shown \in BOOLEAN :
          database' = [database EXCEPT ![1] = [date |-> 1, shown |-> shown, modified |-> FALSE]]
    /\ last' = Quiet("other")
    /\ UNCHANGED <<history, update_affichans, messages, remote, pending, spawned, allOk,
                   archived, sortIn, sortOut, maj,
                   data_file, lock>>

\* generic_commands::change_field: bot.archive(vec![object_id]), F::set_for,
\* object.set_modified(true).
ChangeField(object_id) ==
    /\ database[object_id] # None
    /\ database[object_id].date < MaxVersion
    /\ history' = archive(history, database, <<object_id>>)
    /\ archived' = PushFront(archived, database)
    /\ update_affichans' = TRUE
    /\ database' = [database EXCEPT ![object_id] =
                       [@ EXCEPT !.date = @ + 1, !.modified = TRUE]]
    /\ last' = [op |-> "change_field", res |-> TRUE, pushes |-> Pushes(last) + 1,
                undos |-> 0]
    /\ UNCHANGED <<messages, remote, pending, spawned, allOk, sortIn, sortOut, maj,
                   data_file, lock>>

\* Bot::archive with an empty id list (doublons with no duplicate to remove).
ArchiveNothing ==
    /\ history' = archive(history, database, <<>>)
    /\ update_affichans' = TRUE
    /\ last' = [op |-> "archive", res |-> TRUE, ids |-> <<>>, hist |-> history,
                before |-> database, pushes |-> Pushes(last), undos |-> Undos(last)]
    /\ UNCHANGED <<database, archived, messages, remote, pending, spawned, allOk,
                   sortIn, sortOut, maj,
                   data_file, lock>>

NextHistory ==
    \/ LoadEntity
    \/ \E id \in Ids : ChangeField(id)
    \/ ArchiveNothing
    \/ Annuler

SpecHistory == Init /\ [][NextHistory]_vars

\* C11: bounded history. The history never holds more than 5 batches; after 6 or more
\* archive calls with non-empty id lists it holds exactly 5; after 5 successful
\* annuler calls the next annuler returns false.
C11_BoundedHistory ==
    /\ Len(history) <= HistoryDepth
    /\ Pushes(last) > HistoryDepth => Len(history) = HistoryDepth
    /\ Undos(last) <= HistoryDepth

\* Six changes were archived, five annuler calls in a row returned true and the next
\* one returned false.
C11_Witness ==
    /\ last.op = "annuler" /\ ~last.res /\ Undos(last) = HistoryDepth
    /\ database[1] # None /\ database[1].date > 1

\* C12: the history is a stack with eviction of the oldest. annuler undoes the most
\* recently archived batch that has not been undone (the entity gets the value it had
\* before the latest change still in force), and the batches kept in a full history
\* are the newest ones, in order: after the changes b1..b6 the annuler calls undo b6,
\* b5, b4, b3, b2 and b1 is never undone.
C12_StackWithEvictionOfOldest ==
    database[1] # None =>
        /\ \A i \in 1..Len(history) :
              history[i] = <<[id |-> 1, ecrit |-> history[i][1].ecrit]>>
              /\ history[i][1].ecrit # None
              /\ history[i][1].ecrit.date = database[1].date - i
        /\ (last.op = "annuler" /\ last.res) => database[1].date = last.before[1].date - 1

\* The fifth annuler in a row undoes a change made after the first one, the batch of
\* the first change having been discarded.
C12_Witness ==
    /\ last.op = "annuler" /\ last.res /\ Undos(last) = HistoryDepth
    /\ database[1] # None /\ database[1].date > 1

Loaded == [date : Dates, shown : BOOLEAN, modified : {FALSE}]

LoadDatabase ==
    /\ last.op = "init"
    /\ database' \in [Ids -> Loaded \cup {None}]
    /\ last' = Quiet("other")
    /\ UNCHANGED <<history, update_affichans, messages, remote, pending, spawned, allOk,
                   archived, sortIn, sortOut, maj,
                   data_file, lock>>

UpdateLoaded == last.op # "init" /\ UpdateAffichansWithin(MaxOrderMsgs)

NextOrder == LoadDatabase \/ UpdateLoaded

SpecOrder == Init /\ [][NextOrder]_vars

\* The date of the entity message m was sent for. The platform receives the messages
\* of one update in the order their send calls were issued.
DateOf(m) == database[remote[m].id].date

\* C5: ordering law. For entities that pass the test, are absent from
\* Affichan.messages and have pairwise distinct dates, one update issues their send
\* calls in strictly increasing date order, whatever the iteration order of the map.
C5_SendsInIncreasingDateOrder ==
    last.op = "update_affichans" => \A c \in last.ran :
        (\A m, n \in SentIn(c) : m # n => DateOf(m) # DateOf(n))
            => \A m, n \in SentIn(c) : m < n => DateOf(m) < DateOf(n)

\* ------------------------------------------------------------- SpecInit
\* The saved data of a display channel (the entry of its id in the "affichans" hash of
\* the data file): NoSave when there is none, NotArray when it is not an array,
\* otherwise the array of its entries. An entry is NotHash or a pair
\* [id, message_id], NotInt standing for a value as_i64 rejects.
NoSave == [kind |-> "none"]
NotArray == [kind |-> "scalar"]
Array(entries) == [kind |-> "array", entries |-> entries]
NotHash == [hash |-> FALSE]
NotInt == -1
NoIndex == [id \in Ids |-> NoMsg]

\* A load that fails when a message cannot be fetched.
_load_from_save_strict(c, saved_data, rem) ==
    IF saved_data = NotArray
    THEN {[res |-> "err", idx |-> NoIndex, deleted |-> {}]}
    ELSE LET pairs == SelectSeq(saved_data.entries, LAMBDA e : e # NotHash)
         IN  IF \E i \in 1..Len(pairs) :
                    \/ pairs[i].id = NotInt \/ pairs[i].message_id = NotInt
                    \/ ~FetchOk(rem, c, pairs[i].message_id)
             THEN {[res |-> "err", idx |-> NoIndex, deleted |-> {}]}
             ELSE {[res |-> "ok", idx |-> f, deleted |-> {}] :
                     f \in {g \in [Ids -> 0..Len(rem)] : \A id \in Ids :
                              \/ g[id] = NoMsg /\ ~\E i \in 1..Len(pairs) : pairs[i].id = id
                              \/ \E i \in 1..Len(pairs) :
                                    pairs[i].id = id /\ pairs[i].message_id = g[id]}}

\* A load that keeps the pairs whose message cannot be fetched.
_load_from_save_keepsUnfetched(c, saved_data, rem) ==
    IF saved_data = NotArray
    THEN {[res |-> "err", idx |-> NoIndex, deleted |-> {}]}
    ELSE LET pairs == SelectSeq(saved_data.entries, LAMBDA e : e # NotHash)
         IN  IF \E i \in 1..Len(pairs) :
                    pairs[i].id = NotInt \/ pairs[i].message_id = NotInt
             THEN {[res |-> "err", idx |-> NoIndex, deleted |-> {}]}
             ELSE {[res |-> "ok", idx |-> f, deleted |-> {}] :
                     f \in {g \in [Ids -> 0..Len(rem)] : \A id \in Ids :
                              \/ g[id] = NoMsg /\ ~\E i \in 1..Len(pairs) : pairs[i].id = id
                              \/ \E i \in 1..Len(pairs) :
                                    pairs[i].id = id /\ pairs[i].message_id = g[id]}}

\* Affichan::_load_from_save on channel c: an error when the data is not an array or a
\* pair holds a value that is not an integer; otherwise the pairs whose message the
\* channel still holds, collected into a map (of two pairs with the same id, the one
\* fetched last stays).
_load_from_save(c, saved_data, rem) ==
    IF saved_data = NotArray
    THEN {[res |-> "err", idx |-> NoIndex, deleted |-> {}]}
    ELSE LET pairs == SelectSeq(saved_data.entries, LAMBDA e : e # NotHash)
             fetched == {i \in 1..Len(pairs) : FetchOk(rem, c, pairs[i].message_id)}
         IN  IF \E i \in 1..Len(pairs) :
                    pairs[i].id = NotInt \/ pairs[i].message_id = NotInt
             THEN {[res |-> "err", idx |-> NoIndex, deleted |-> {}]}
             ELSE {[res |-> "ok", idx |-> f, deleted |-> {}] :
                     f \in {g \in [Ids -> 0..Len(rem)] : \A id \in Ids :
                              \/ g[id] = NoMsg /\ ~\E i \in fetched : pairs[i].id = id
                              \/ \E i \in fetched :
                                    pairs[i].id = id /\ pairs[i].message_id = g[id]}}

\* The messages _load_from_messages keeps of the channel: those of the bot whose footer
\* parses as an id.
Tagged(rem, c) ==
    {m \in 1..Len(rem) : rem[m] # Dead /\ rem[m].chan = c /\ ByBot(rem[m]) /\ rem[m].id # 0}

\* A scan that indexes the messages whose id matches no entity instead of deleting them.
_load_from_messages_keepsOrphans(c, idx, db, rem) ==
    {[res |-> "ok",
      idx |-> [id \in Ids |->
                 IF \E m \in Tagged(rem, c) : rem[m].id = id
                 THEN CHOOSE m \in Tagged(rem, c) : rem[m].id = id
                         /\ \A n \in Tagged(rem, c) : rem[n].id = id => m <= n
                 ELSE NoMsg],
      deleted |-> {}]}

\* Affichan::_load_from_messages on channel c, whose Affichan.messages is idx: a tagged
\* message is taken when its id is in the database and not a key of idx, and handed to
\* a spawned deletion otherwise. get_channel_messages lists the newest message first
\* and collect keeps the last pair of an id: the oldest message taken for it.
_load_from_messages(c, idx, db, rem) ==
    LET taken == {m \in Tagged(rem, c) : db[rem[m].id] # None /\ idx[rem[m].id] = NoMsg}
    IN  {[res |-> "ok",
          idx |-> [id \in Ids |->
                     IF \E m \in taken : rem[m].id = id
                     THEN CHOOSE m \in taken : rem[m].id = id
                             /\ \A n \in taken : rem[n].id = id => m <= n
                     ELSE NoMsg],
          deleted |-> Tagged(rem, c) \ taken]}

\* An init that stops after the load.
init_skips_update(c, idx, rem, db, saved_data, order) ==
    {[idx |-> IF l.res = "ok" THEN l.idx ELSE idx, rem |-> rem, deleted |-> l.deleted,
      res |-> l.res, loaded |-> l]
        : l \in IF saved_data = NoSave THEN _load_from_messages(c, idx, db, rem)
                ELSE _load_from_save(c, saved_data, rem)}

\* Every way Affichan::init can end on channel c: the load, from the saved data when
\* there is one and from the channel otherwise, assigned to Affichan.messages when it is
\* Ok, and then Affichan::update.
init(c, idx, rem, db, saved_data, order) ==
    UNION {IF l.res = "err"
           THEN {[idx |-> idx, rem |-> rem, deleted |-> {}, res |-> "err", loaded |-> l]}
           ELSE {[idx |-> u.idx, rem |-> u.rem, deleted |-> l.deleted \cup u.deleted,
                  res |-> u.res, loaded |-> l] : u \in update(c, l.idx, rem, db, order)}
        : l \in IF saved_data = NoSave THEN _load_from_messages(c, idx, db, rem)
                ELSE _load_from_save(c, saved_data, rem)}

\* try_join_all over the channels' init in the setup of Bot::new, from channel c on.
NoLoad == [c \in Chans |-> [res |-> "none", idx |-> NoIndex, deleted |-> {}]]
RECURSIVE InitFrom(_, _, _, _, _)
InitFrom(c, w, db, saved, order) ==
    IF c > NbChans THEN {w}
    ELSE UNION {
        InitFrom(c + 1,
                 [ messages |-> [w.messages EXCEPT ![c] = r.idx],
                   rem |-> r.rem,
                   spawned |-> w.spawned \cup r.deleted,
                   ran |-> IF r.res = "ok" THEN w.ran \cup {c} ELSE w.ran,
                   loaded |-> [w.loaded EXCEPT ![c] = r.loaded] ],
                 db, saved, order)
        : r \in init(c, w.messages[c], w.rem, db, saved[c], order)}

\* What the display channels hold when the bot starts: messages of the bot tagged with
\* entity 1 or with the unknown id MaxId, deleted messages and, in channel 1, a message
\* of the bot without a footer and a message of somebody else whose footer reads 1.
ChannelMessages ==
    {Dead} \cup [chan : Chans, id : {1, MaxId}]
           \cup {[chan |-> 1, id |-> 0], [chan |-> 1, id |-> 1, author |-> "other"]}
Platforms == UNION {[1..n -> ChannelMessages] : n \in 0..MaxScan}

\* The saved data a data file can hold for a channel, over the ids of n messages.
Entries(n) ==
    {NotHash} \cup [id : {1, MaxId}, message_id : 1..n]
              \cup {[id |-> NotInt, message_id |-> 1], [id |-> 1, message_id |-> NotInt]}
SavedData(n) ==
    {NoSave, NotArray} \cup {Array(e) : e \in UNION {[1..k -> Entries(n)] : k \in 0..MaxPairs}}

\* The database Bot::setup loaded from the data file: entity 1, and entity 2 which
\* only channel 2 lists.
LoadedDatabases ==
    {db \in [Ids -> Loaded \cup {None}] :
        /\ \A id \in Ids : db[id] # None => id <= MaxInsertId /\ db[id].date = 1
        /\ \A id \in Ids \ {1} : db[id] # None => ~db[id].shown}

InitSetup ==
    /\ database \in LoadedDatabases
    /\ history = <<>>
    /\ update_affichans = FALSE
    /\ messages = [c \in Chans |-> NoIndex]
    /\ remote \in Platforms
    /\ pending = {}
    /\ spawned = {}
    /\ allOk = TRUE
    /\ last = Obs("init", "ok", 0, NoPass, {}, {}, NoCheck)
    /\ archived = <<>>
    /\ maj = NoMaj
    /\ data_file = NoFile
    /\ lock = NoLock
    /\ sortIn = <<>>
    /\ sortOut = NotSorted

\* The setup of Bot::new: every display channel's init, the first one from the saved
\* data the data file holds for it, the others from their channel. The saved data
\* names messages the platform has received. The bot does not start when one of the
\* init returns an error.
Setup(saved_data) ==
    /\ last.op = "init"
    /\ saved_data.kind = "array" =>
          \A i \in 1..Len(saved_data.entries) :
             (saved_data.entries[i] # NotHash /\ saved_data.entries[i].message_id # NotInt)
                => saved_data.entries[i].message_id <= Len(remote)
    /\ LET saved == [c \in Chans |-> IF c = 1 THEN saved_data ELSE NoSave]
       IN  \E order \in Orders(database) :
           \E w \in InitFrom(1, [messages |-> messages, rem |-> remote, spawned |-> spawned,
                                 ran |-> {}, loaded |-> NoLoad], database, saved, order) :
              /\ Len(w.rem) <= MaxSetupMsgs
              /\ messages' = w.messages
              /\ remote' = w.rem
              /\ spawned' = w.spawned
              /\ allOk' = (w.ran = Chans)
              /\ last' = [op |-> "setup", res |-> IF w.ran = Chans THEN "ok" ELSE "err",
                          base |-> Len(remote), ran |-> w.ran, saved |-> saved,
                          loaded |-> w.loaded, began |-> Len(remote), first |-> FALSE,
                          prev |-> {}, moved |-> {}, edited |-> {}]
    /\ UNCHANGED <<database, history, update_affichans, pending, archived, sortIn, sortOut, maj,
                   data_file, lock>>

\* An update_affichans of the bot the setup started. Its observation keeps the saved
\* data the setup was given and tells whether it is the first one after the setup.
UpdateStarted ==
    /\ last.op # "init"
    /\ last.res = "ok" \/ last.op # "setup"
    /\ UpdateAffichansNoting(MaxSetupMsgs,
            [saved |-> last.saved, began |-> last.began, first |-> last.op = "setup"])

NextInit == (\E saved_data \in SavedData(MaxScan) : Setup(saved_data)) \/ UpdateStarted

SpecInit == InitSetup /\ [][NextInit]_vars

\* ------------------------------------------------- properties of SpecInit
\* The pairs of the saved data of channel 1 the setup was given, and the messages the
\* channels held when it began (the setup deletes nothing itself).
SetupFromSave == last.op = "setup" /\ last.saved[1].kind = "array"
SavedPairs == SelectSeq(last.saved[1].entries, LAMBDA e : e # NotHash)
Malformed(pair) == pair.id = NotInt \/ pair.message_id = NotInt
Before == SubSeq(remote, 1, last.began)

\* C15: during init from saved data in which every pair holds two integers, the load
\* succeeds, a pair whose message cannot be fetched is in neither the loaded index nor
\* the index init leaves, a pair whose message is fetched puts its id in the loaded
\* index, and init succeeds when no entity passes the test; when a pair holds a value
\* that is not an integer, the load and the whole init return an error and the index
\* stays empty.
C15_FetchFailureDropsMalformedFails ==
    SetupFromSave =>
        IF \E i \in 1..Len(SavedPairs) : Malformed(SavedPairs[i])
        THEN /\ last.loaded[1].res = "err"
             /\ 1 \notin last.ran /\ last.res = "err"
             /\ messages[1] = NoIndex
        ELSE /\ last.loaded[1].res = "ok"
             /\ \A i \in 1..Len(SavedPairs) :
                  IF FetchOk(Before, 1, SavedPairs[i].message_id)
                  THEN last.loaded[1].idx[SavedPairs[i].id] # NoMsg
                  ELSE /\ last.loaded[1].idx[SavedPairs[i].id] # SavedPairs[i].message_id
                       /\ messages[1][SavedPairs[i].id] # SavedPairs[i].message_id
             /\ (\A id \in Ids : ~Test(1, database[id])) => 1 \in last.ran

\* A init that succeeded from saved data holding a pair whose message is gone and a
\* pair whose message is there.
C15_Witness ==
    /\ SetupFromSave /\ 1 \in last.ran
    /\ \E i, j \in 1..Len(SavedPairs) :
          /\ ~Malformed(SavedPairs[i]) /\ ~Malformed(SavedPairs[j])
          /\ ~FetchOk(Before, 1, SavedPairs[i].message_id)
          /\ FetchOk(Before, 1, SavedPairs[j].message_id)
          /\ last.loaded[1].idx[SavedPairs[i].id] = NoMsg
          /\ last.loaded[1].idx[SavedPairs[j].id] = SavedPairs[j].message_id

\* The pairs of the saved data whose message could not be fetched, their entity
\* passing the test of channel 1, and those for whose id no pair was fetched at all.
Unfetched ==
    {i \in 1..Len(SavedPairs) :
        /\ ~Malformed(SavedPairs[i])
        /\ ~FetchOk(Before, 1, SavedPairs[i].message_id)
        /\ Test(1, database[SavedPairs[i].id])}
Lost ==
    {i \in Unfetched : \A j \in 1..Len(SavedPairs) :
        (~Malformed(SavedPairs[j]) /\ SavedPairs[j].id = SavedPairs[i].id)
            => ~FetchOk(Before, 1, SavedPairs[j].message_id)}

\* C16 as stated: for a pair of the saved data whose message cannot be fetched, init
\* returns success with the index not containing the id; the next update, the entity
\* passing the test, sends one fresh message for it and the index then holds the id
\* with a handle that is not the saved message id.
C16_RecoveryByNextUpdate ==
    /\ (SetupFromSave /\ 1 \in last.ran) =>
          \A i \in Lost : messages[1][SavedPairs[i].id] = NoMsg
    /\ (last.op = "update_affichans" /\ last.first /\ last.saved[1].kind = "array"
           /\ 1 \in last.ran) =>
          \A i \in Lost :
             /\ Cardinality(SentIn(1) \cap LiveOf(remote, 1, SavedPairs[i].id)) = 1
             /\ messages[1][SavedPairs[i].id] \in SentIn(1)
             /\ messages[1][SavedPairs[i].id] # SavedPairs[i].message_id

\* C16, amended: for a pair of the saved data whose message cannot be fetched, the
\* entity passing the test, init itself sends one fresh message for the id when no
\* other pair gave it a message, and returns success with the index holding the id
\* with a live handle that is not the saved message id; the next update sends nothing
\* in the channel and leaves its index as it is.
C16_RecoveryByInit ==
    /\ (SetupFromSave /\ 1 \in last.ran) =>
          /\ \A i \in Unfetched :
                /\ messages[1][SavedPairs[i].id] # NoMsg
                /\ messages[1][SavedPairs[i].id] # SavedPairs[i].message_id
                /\ IsLive(remote, messages[1][SavedPairs[i].id])
          /\ \A i \in Lost :
                /\ Cardinality(SentIn(1) \cap LiveOf(remote, 1, SavedPairs[i].id)) = 1
                /\ messages[1][SavedPairs[i].id] \in SentIn(1)
                /\ remote[messages[1][SavedPairs[i].id]] = [chan |-> 1, id |-> SavedPairs[i].id]
    /\ (last.op = "update_affichans" /\ last.first /\ last.saved[1].kind = "array") =>
          /\ SentIn(1) = {}
          /\ 1 \notin last.moved
          /\ 1 \in last.ran

\* The update that follows a init which replaced the message of a pair that could not
\* be fetched.
C16_Witness ==
    /\ last.op = "update_affichans" /\ last.first /\ last.saved[1].kind = "array"
    /\ Lost # {}
    /\ \A i \in Lost : /\ messages[1][SavedPairs[i].id] > last.began
                       /\ messages[1][SavedPairs[i].id] <= last.base

\* The channels whose init scanned the channel, and the messages channel c held then.
Scanned == {c \in Chans : last.op = "setup" /\ last.saved[c] = NoSave}
HeldBy(c) == {m \in 1..last.began : FetchOk(Before, c, m)}
IndexedIn(c, m) ==
    \E id \in Ids : last.loaded[c].idx[id] = m \/ messages[c][id] = m

\* C17: when the scan of init finds two or more messages of the bot tagged with the
\* same entity id of the database, exactly one of them is in the index for that id
\* and a delete is issued for every other one.
C17_DuplicatesReducedToOne ==
    \A c \in Scanned : \A id \in Ids :
        (database[id] # None /\ Cardinality(LiveOf(Before, c, id)) >= 2) =>
            /\ last.loaded[c].idx[id] \in LiveOf(Before, c, id)
            /\ LiveOf(Before, c, id) \ {last.loaded[c].idx[id]} \subseteq spawned

\* C18: during the scan of init, a message of the bot whose footer id matches no entity
\* of the database is handed to a deletion and is not indexed, and a message that is
\* not the bot's or carries no footer id is neither indexed nor handed to a deletion.
C18_ScanDropsOrphansIgnoresOthers ==
    \A c \in Scanned : \A m \in HeldBy(c) :
        IF ByBot(remote[m]) /\ remote[m].id # 0
        THEN database[remote[m].id] = None =>
                /\ m \in last.loaded[c].deleted /\ m \in spawned
                /\ ~IndexedIn(c, m)
        ELSE /\ m \notin last.loaded[c].deleted /\ m \notin spawned
             /\ ~IndexedIn(c, m)

\* A scan that met a message of the bot tagged with an unknown id and a message that
\* is not the bot's or has no footer id.
C18_Witness ==
    \E c \in Scanned : \E m, n \in HeldBy(c) :
        /\ ByBot(remote[m]) /\ remote[m].id # 0 /\ database[remote[m].id] = None
        /\ m \in spawned
        /\ ~ByBot(remote[n]) \/ remote[n].id = 0

\* C19: whenever init returns success, the index holds exactly the ids of the entities
\* that pass the test, whatever the saved data or the channel held, and the messages
\* loaded for other ids are handed to a deletion.
C19_InitEndsWithUpdate ==
    last.op = "setup" =>
        \A c \in last.ran : \A id \in Ids :
            /\ messages[c][id] # NoMsg <=> Test(c, database[id])
            /\ (last.loaded[c].idx[id] # NoMsg /\ ~Test(c, database[id]))
                  => last.loaded[c].idx[id] \in spawned

\* A init that succeeded after loading a message for an id that passes no test and
\* none for an entity that passes it.
C19_Witness ==
    /\ last.op = "setup"
    /\ \E c \in last.ran : \E id, other \in Ids :
          /\ last.loaded[c].idx[id] # NoMsg /\ ~Test(c, database[id])
          /\ last.loaded[c].idx[other] = NoMsg /\ Test(c, database[other])
          /\ messages[c][other] # NoMsg

\* ---------------------------------------------------------- SpecRefresh
\* The messages an index holds, and those of them the platform no longer has.
Handles(idx) == {idx[id] : id \in {i \in DOMAIN idx : idx[i] # NoMsg}}
Gone(idx, rem) == {m \in Handles(idx) : ~DeleteOk(rem, m)}
DeleteAll(rem, ms) == [m \in 1..Len(rem) |-> IF m \in ms THEN Dead ELSE rem[m]]
Size(S) == Cardinality(S)

\* Every way Affichan::refresh can end on the index idx. Message::delete is called on
\* the messages of a clone of the index, BufferSize calls at a time in the order of the
\* map, a further one each time one returns Ok; try_collect returns the first error and
\* drops the calls in flight, each of which may or may not have reached the platform.
\* issued are the messages delete was called on, deleted those it went through for.
\* The index is not written.
refresh(idx, rem) ==
    IF Gone(idx, rem) = {}
    THEN {[idx |-> idx, rem |-> DeleteAll(rem, Handles(idx)), res |-> "ok",
           issued |-> Handles(idx), deleted |-> Handles(idx)]}
    ELSE {[idx |-> idx, rem |-> DeleteAll(rem, del), res |-> "err", issued |-> iss,
           deleted |-> del] :
            <<iss, del>> \in
              {p \in (SUBSET Handles(idx)) \X (SUBSET (Handles(idx) \ Gone(idx, rem))) :
                 /\ p[2] \subseteq p[1]
                 /\ p[1] \cap Gone(idx, rem) # {}
                 /\ \/ p[1] = Handles(idx)
                    \/ Size(p[1]) >= BufferSize /\ Size(p[1]) - BufferSize <= Size(p[2])}}

\* try_join_all over the channels' refresh, from channel c on.
NotRefreshed == [c \in Chans |-> [res |-> "none", issued |-> {}, deleted |-> {}]]
RECURSIVE RefreshFrom(_, _)
RefreshFrom(c, w) ==
    IF c > NbChans THEN {w}
    ELSE UNION {
        RefreshFrom(c + 1,
                    [ messages |-> [w.messages EXCEPT ![c] = r.idx],
                      rem |-> r.rem,
                      run |-> [w.run EXCEPT ![c] =
                                 [res |-> r.res, issued |-> r.issued, deleted |-> r.deleted]] ])
        : r \in refresh(w.messages[c], w.rem)}

\* The bot after an update_affichans over the entities 1..shown, whose field is set,
\* and the following hidden ones: each channel holds one message, SentFor(c, id), for
\* each entity that passes its test. The other messages of the platform are long gone.
RefreshIds == 1..MaxRefreshIds
SentFor(c, id) == (c - 1) * MaxRefreshIds + id
InitRefresh ==
    \E shown \in 0..MaxRefreshIds : \E hidden \in 0..(MaxRefreshIds - shown) :
        /\ database = [id \in RefreshIds |->
                         IF id <= shown + hidden
                         THEN [date |-> 1, shown |-> id <= shown, modified |-> FALSE]
                         ELSE None]
        /\ messages = [c \in Chans |-> [id \in RefreshIds |->
                         IF Test(c, database[id]) THEN SentFor(c, id) ELSE NoMsg]]
        /\ remote = [m \in 1..(NbChans * MaxRefreshIds) |->
                       IF \E c \in Chans : \E id \in RefreshIds : messages[c][id] = m
                       THEN CHOOSE msg \in [chan : Chans, id : RefreshIds] :
                               messages[msg.chan][msg.id] = m
                       ELSE Dead]
        /\ history = <<>>
        /\ update_affichans = FALSE
        /\ pending = {}
        /\ spawned = {}
        /\ allOk = TRUE
        /\ last = Obs("init", "ok", 0, NoPass, {}, {}, NoCheck)
        /\ archived = <<>>
        /\ maj = NoMaj
        /\ data_file = NoFile
        /\ lock = NoLock
        /\ sortIn = <<>>
        /\ sortOut = NotSorted

\* The refresh_affichans command: every channel's refresh under the lock. The platform
\* raises a MessageDelete event for each message deleted.
RefreshAffichans ==
    \E w \in RefreshFrom(1, [messages |-> messages, rem |-> remote, run |-> NotRefreshed]) :
        /\ messages' = w.messages
        /\ remote' = w.rem
        /\ pending' = pending \cup UNION {w.run[c].deleted : c \in Chans}
        /\ allOk' = (allOk /\ \A c \in Chans : w.run[c].res = "ok")
        /\ last' = [op |-> "refresh_affichans",
                    res |-> IF \A c \in Chans : w.run[c].res = "ok" THEN "ok" ELSE "err",
                    run |-> w.run, index |-> messages, db |-> database, rem |-> remote]
        /\ UNCHANGED <<database, history, update_affichans, spawned, archived, sortIn,
                       sortOut, maj,
                   data_file, lock>>

NextRefresh == RefreshAffichans \/ \E m \in 1..(NbChans * MaxRefreshIds) : ExternalDelete(m)

SpecRefresh == InitRefresh /\ [][NextRefresh]_vars

\* C20: refresh calls delete on every message of the index and leaves the
\* index and the database as they were, whether it returns Ok or an error.
C20_RefreshDeletesEveryMessage ==
    last.op = "refresh_affichans" =>
        /\ \A c \in Chans : last.run[c].issued = Handles(last.index[c])
        /\ messages = last.index
        /\ database = last.db

\* ---------------------------------------------------------- SpecChannel
\* The methods of Affichan called one at a time on display channel 1: update, up,
\* remove and purge, between changes of the database and deletions on the platform.
NotFound == "ObjectNotFound"

\* A up that forgets the id once its message is deleted, as remove does.
up_thenForget(idx, rem, object_id) ==
    IF idx[object_id] = NoMsg
    THEN [idx |-> idx, rem |-> rem, res |-> NotFound, calls |-> {}]
    ELSE IF DeleteOk(rem, idx[object_id])
    THEN [idx |-> [idx EXCEPT ![object_id] = NoMsg], rem |-> AfterDelete(rem, idx[object_id]),
          res |-> "ok", calls |-> {idx[object_id]}]
    ELSE [idx |-> idx, rem |-> rem, res |-> "err", calls |-> {idx[object_id]}]

\* Affichan::up: ObjectNotFound when object_id is not a key of Affichan.messages,
\* otherwise Message::delete on its message, whose error is returned. calls are the
\* messages delete was called on.
up(idx, rem, object_id) ==
    IF idx[object_id] = NoMsg
    THEN [idx |-> idx, rem |-> rem, res |-> NotFound, calls |-> {}]
    ELSE IF DeleteOk(rem, idx[object_id])
    THEN [idx |-> idx, rem |-> AfterDelete(rem, idx[object_id]), res |-> "ok",
          calls |-> {idx[object_id]}]
    ELSE [idx |-> idx, rem |-> rem, res |-> "err", calls |-> {idx[object_id]}]

\* A remove that takes the id out of the index whatever the delete returned.
remove_always(idx, rem, object_id) ==
    IF idx[object_id] = NoMsg
    THEN [idx |-> idx, rem |-> rem, res |-> NotFound, calls |-> {}]
    ELSE [idx |-> [idx EXCEPT ![object_id] = NoMsg], rem |-> AfterDelete(rem, idx[object_id]),
          res |-> IF DeleteOk(rem, idx[object_id]) THEN "ok" ELSE "err",
          calls |-> {idx[object_id]}]

\* Affichan::remove: as up, and the id is removed from Affichan.messages once the
\* delete returned Ok.
remove(idx, rem, object_id) ==
    IF idx[object_id] = NoMsg
    THEN [idx |-> idx, rem |-> rem, res |-> NotFound, calls |-> {}]
    ELSE IF DeleteOk(rem, idx[object_id])
    THEN [idx |-> [idx EXCEPT ![object_id] = NoMsg], rem |-> AfterDelete(rem, idx[object_id]),
          res |-> "ok", calls |-> {idx[object_id]}]
    ELSE [idx |-> idx, rem |-> rem, res |-> "err", calls |-> {idx[object_id]}]

\* Every way Affichan::purge can end: refresh, whose error is returned, then clear.
purge(idx, rem) ==
    {[idx |-> IF r.res = "ok" THEN [id \in DOMAIN idx |-> NoMsg] ELSE r.idx,
      rem |-> r.rem, res |-> r.res, issued |-> r.issued, deleted |-> r.deleted]
        : r \in refresh(idx, rem)}

\* What a call on channel c left for the next one to see: the call, its channel, the
\* id it was given and the message the index held for it.
Call(op, c, id) == [op |-> op, chan |-> c, id |-> id,
                    handle |-> IF id = 0 THEN NoMsg ELSE messages[c][id]]
Previous ==
    IF "call" \in DOMAIN last
    THEN [op |-> last.call.op, chan |-> last.call.chan, id |-> last.call.id,
          handle |-> last.call.handle, res |-> last.res]
    ELSE [op |-> "other", chan |-> 1, id |-> 0, handle |-> NoMsg, res |-> "ok"]

\* Affichan::update on channel c alone.
AffichanUpdate(c) ==
    \E order \in Orders(database) :
    \E u \in update(c, messages[c], remote, database, order) :
        /\ Len(u.rem) <= MaxChannelMsgs
        /\ messages' = [messages EXCEPT ![c] = u.idx]
        /\ remote' = u.rem
        /\ spawned' = spawned \cup u.deleted
        /\ allOk' = (allOk /\ u.res = "ok")
        /\ last' = [op |-> "update", res |-> u.res, call |-> Call("update", c, 0),
                    base |-> Len(remote),
                    issued |-> [i \in 1..Len(u.issued) |-> u.issued[i].id],
                    error |-> u.error, edits |-> u.edits, edit_fails |-> u.edit_fails,
                    pruned |-> u.deleted,
                    after |-> Previous]
        /\ UNCHANGED <<database, history, update_affichans, pending, archived, sortIn,
                       sortOut, maj,
                   data_file, lock>>

\* Affichan::up and Affichan::remove on channel c. The platform raises a MessageDelete
\* event for the message deleted.
AffichanUp(c, object_id) ==
    LET r == up(messages[c], remote, object_id)
    IN  /\ messages' = [messages EXCEPT ![c] = r.idx]
        /\ remote' = r.rem
        /\ pending' = pending \cup {m \in r.calls : r.res = "ok"}
        /\ last' = [op |-> "up", res |-> r.res, call |-> Call("up", c, object_id),
                    base |-> Len(remote),
                    calls |-> r.calls]
        /\ UNCHANGED <<database, history, update_affichans, spawned, allOk, archived,
                       sortIn, sortOut, maj,
                   data_file, lock>>

AffichanRemove(c, object_id) ==
    LET r == remove(messages[c], remote, object_id)
    IN  /\ messages' = [messages EXCEPT ![c] = r.idx]
        /\ remote' = r.rem
        /\ pending' = pending \cup {m \in r.calls : r.res = "ok"}
        /\ last' = [op |-> "remove", res |-> r.res, call |-> Call("remove", c, object_id),
                    base |-> Len(remote),
                    calls |-> r.calls]
        /\ UNCHANGED <<database, history, update_affichans, spawned, allOk, archived,
                       sortIn, sortOut, maj,
                   data_file, lock>>

\* Affichan::purge on channel c.
AffichanPurge(c) ==
    \E r \in purge(messages[c], remote) :
        /\ messages' = [messages EXCEPT ![c] = r.idx]
        /\ remote' = r.rem
        /\ pending' = pending \cup r.deleted
        /\ last' = [op |-> "purge", res |-> r.res, call |-> Call("purge", c, 0),
                    base |-> Len(remote),
                    calls |-> r.issued]
        /\ UNCHANGED <<database, history, update_affichans, spawned, allOk, archived,
                       sortIn, sortOut, maj,
                   data_file, lock>>

NextChannel ==
    \/ AffichanUpdate(1)
    \/ \E id \in Ids : AffichanUp(1, id)
    \/ \E id \in Ids : AffichanRemove(1, id)
    \/ AffichanPurge(1)
    \/ \E m \in 1..MaxChannelMsgs : ExternalDelete(m)
    \/ \E id \in 1..MaxInsertId : \E e \in Inserted : DbInsert(id, e)
    \/ \E id \in Ids : \E shown \in BOOLEAN : DbModify(id, shown)
    \/ \E id \in Ids : DbRemove(id)

SpecChannel == Init /\ [][NextChannel]_vars

\* ---------------------------------------------- properties of SpecChannel
\* C21: purge always ends with an empty index, a delete that fails does not prevent
\* it, and the next successful update sends a fresh message for every entity that
\* passes the test.
C21_PurgeEndsEmpty ==
    /\ last.op = "purge" => messages[last.call.chan] = NoIndex
    /\ (last.op = "update" /\ last.res = "ok" /\ last.after.op = "purge") =>
          \A id \in Ids : Test(last.call.chan, database[id]) =>
              messages[last.call.chan][id] \in SentIn(last.call.chan)

\* C22: up on an id that is not in the index returns ObjectNotFound and calls nothing
\* on the platform; on an indexed id it calls delete on that id's message only, which
\* is gone when it returns Ok, and leaves the keys and handles of the index as they
\* were.
C22_UpDeletesOnlyItsMessage ==
    [][last'.op = "up" =>
        LET handle == messages[last'.call.chan][last'.call.id]
        IN  /\ messages' = messages
            /\ Len(remote') = Len(remote)
            /\ IF handle = NoMsg
               THEN last'.res = NotFound /\ last'.calls = {} /\ remote' = remote
               ELSE /\ last'.calls = {handle}
                    /\ \A m \in 1..Len(remote) : m # handle => remote'[m] = remote[m]
                    /\ last'.res = "ok" <=> IsLive(remote, handle)
                    /\ last'.res = "ok" => ~IsLive(remote', handle)]_vars

\* A up that deleted the message of an indexed id.
C22_Witness ==
    /\ last.op = "up" /\ last.res = "ok"
    /\ last.call.handle # NoMsg
    /\ messages[last.call.chan][last.call.id] = last.call.handle
    /\ ~IsLive(remote, last.call.handle)

\* C23: remove on an indexed id deletes its message and removes the id from the
\* index; when the delete fails the index is left as it was; on an id that is not
\* indexed it returns ObjectNotFound and changes nothing; and the successful update
\* that follows a remove indexes the id again, with a new handle, exactly when the
\* entity is in the database and passes the test.
C23_RemoveThenUpdate ==
    /\ [][last'.op = "remove" =>
            LET c == last'.call.chan
                handle == messages[c][last'.call.id]
            IN  IF handle = NoMsg
                THEN last'.res = NotFound /\ messages' = messages /\ remote' = remote
                ELSE IF IsLive(remote, handle)
                THEN /\ last'.res = "ok"
                     /\ messages' = [messages EXCEPT ![c][last'.call.id] = NoMsg]
                     /\ remote' = AfterDelete(remote, handle)
                ELSE last'.res = "err" /\ messages' = messages /\ remote' = remote]_vars
    /\ [](( /\ last.op = "update" /\ last.res = "ok"
            /\ last.after.op = "remove" /\ last.after.res = "ok") =>
             /\ messages[last.call.chan][last.after.id] # NoMsg
                   <=> Test(last.call.chan, database[last.after.id])
             /\ messages[last.call.chan][last.after.id] # NoMsg =>
                   /\ messages[last.call.chan][last.after.id] \in SentIn(last.call.chan)
                   /\ messages[last.call.chan][last.after.id] # last.after.handle)

\* An update that indexed again, with a new handle, the id a remove had taken out.
C23_Witness ==
    /\ last.op = "update" /\ last.res = "ok"
    /\ last.after.op = "remove" /\ last.after.res = "ok"
    /\ messages[last.call.chan][last.after.id] > last.after.handle

\* The sends of the last update that did not reach the platform.
Missing ==
    {i \in 1..Len(last.issued) :
        ~\E m \in SentIn(last.call.chan) : remote[m].id = last.issued[i]}

\* C26: update returns an error exactly when a send of the populate phase failed, and
\* the error is that of the first send that failed; an edit that failed and a pruned
\* message whose delete fails do not make it return an error.
C26_UpdateFailsOnlyOnSend ==
    last.op = "update" =>
        /\ last.res = "err" <=> Missing # {}
        /\ last.res = "err" =>
              /\ \E i \in Missing : last.error = last.issued[i]
                                       /\ \A j \in Missing : i <= j
        /\ last.res = "ok" => last.error = 0

\* An update that returned Ok although an edit failed and the delete of the message
\* it pruned cannot succeed.
C26_Witness ==
    /\ last.op = "update" /\ last.res = "ok"
    /\ last.edit_fails # {}
    /\ \E m \in last.pruned : ~IsLive(remote, m)

\* C24: within one update the phases are strictly ordered: when update has sent (or
\* tried to send) a message, every edit has completed and every deletion of a message
\* the retain dropped has been executed on the platform, none is still waiting in the
\* task handed to tokio::spawn.
C24_PhasesStrictlyOrdered ==
    (last.op = "update" /\ Len(last.issued) > 0) => last.pruned \cap spawned = {}

\* C31: every message the populate phase of an update sent is in the index, under the
\* id of its entity, when the update returns, also when a later send of the same
\* update failed and the update returns that error.
C31_SentMessagesAreIndexed ==
    last.op = "update" =>
        \A m \in SentIn(last.call.chan) : messages[last.call.chan][remote[m].id] = m

\* C32: an edit that fails, for an indexed entity that exists, passes the test and is
\* modified, does not make update fail (an error of update is that of a send it
\* issued); the retain takes the id out of the index and hands its old message to the
\* deletion task; and an update that returns Ok has sent a fresh message for the id
\* and indexed the id under it.
C32_FailedEditIsSentAgain ==
    [][last'.op = "update" =>
        LET c == last'.call.chan
        IN  /\ last'.res = "err" =>
                  \E i \in 1..Len(last'.issued) : last'.issued[i] = last'.error
            /\ \A id \in last'.edit_fails :
                  /\ messages[c][id] # NoMsg /\ ~EditOk(remote, messages[c][id])
                  /\ database[id] # None /\ Test(c, database[id]) /\ database[id].modified
                  /\ messages[c][id] \in last'.pruned
                  /\ messages[c][id] \in spawned'
                  /\ messages'[c][id] # messages[c][id]
                  /\ last'.res = "ok" =>
                        /\ messages'[c][id] \in (Len(remote) + 1)..Len(remote')
                        /\ remote'[messages'[c][id]] = [chan |-> c, id |-> id]]_vars

\* An update whose edit of an indexed entity failed and that returned Ok with the id
\* indexed under a message it sent.
C32_Witness ==
    /\ last.op = "update" /\ last.res = "ok"
    /\ \E id \in last.edit_fails :
          /\ messages[last.call.chan][id] \in SentIn(last.call.chan)
          /\ remote[messages[last.call.chan][id]].id = id

\* C33: update calls edit for an indexed id exactly when the entity of the id is in
\* the database, passes the test and is modified; it calls edit for no id that is not
\* indexed, nor for an indexed id whose entity is unmodified, absent or fails the test.
C33_EditsExactlyTheModified ==
    [][last'.op = "update" =>
        \A id \in Ids :
            id \in last'.edits <=>
                /\ messages[last'.call.chan][id] # NoMsg
                /\ database[id] # None
                /\ UserTest(last'.call.chan, database[id])
                /\ database[id].modified]_vars

\* An update that edited the message of a modified entity and left alone that of an
\* indexed entity that is not modified.
C33_Witness ==
    /\ last.op = "update" /\ last.res = "ok"
    /\ last.edits # {} /\ last.edit_fails = {}
    /\ \E id \in Ids \ last.edits :
          /\ messages[last.call.chan][id] \in 1..last.base
          /\ database[id] # None /\ ~database[id].modified

\* ----------------------------------------------------------- SpecFlight
\* The calls of one channel that are in flight. A phase of the channel's work hands a
\* set of calls to a combinator, which starts them and waits for them. The effect of
\* the calls on the platform is that of the specifications above; here the state of
\* the bot stays as it is and only the calls' progress is followed, in last.
FlightIds == 1..MaxFlightIds
Phases == {"edit", "prune", "send", "fetch", "scan", "refresh"}

\* The combinator each phase gives its calls to.
Combinator(phase) ==
    CASE phase = "edit" -> "join_all"
      [] phase = "prune" -> "buffer_unordered"
      [] phase = "send" -> "buffered"
      [] phase = "fetch" -> "buffer_unordered"
      [] phase = "scan" -> "spawn"
      [] phase = "refresh" -> "buffer_unordered"

\* Whether the combinator starts a further call when n of its calls are in flight:
\* join_all polls every future it was given, tokio::spawn runs each task at once,
\* buffered(4) and buffer_unordered(4) hold at most BufferSize futures.
MayStart(combinator, n) ==
    CASE combinator = "join_all" -> TRUE
      [] combinator = "spawn" -> TRUE
      [] combinator = "buffered" -> n < BufferSize
      [] combinator = "buffer_unordered" -> n < BufferSize

\* The calls of each phase on channel c, each named by the message it is about (by
\* the entity id for a send): the edits of _edit_messages_if_modified, the deletions
\* of the messages the retain of update drops, the sends of the new valid entities,
\* the fetches of the messages a save holds, the deletions of the messages of the
\* channel whose entity the scan does not find, the deletions of refresh.
Edits(c, idx, db) ==
    {id \in DOMAIN idx : idx[id] # NoMsg /\ Test(c, db[id]) /\ db[id] # None
                         /\ db[id].modified}
Dropped(c, idx, db, rem) ==
    {id \in DOMAIN idx :
        /\ idx[id] # NoMsg
        /\ ~(/\ db[id] # None
             /\ Test(c, db[id])
             /\ ~(id \in Edits(c, idx, db) /\ ~EditOk(rem, idx[id])))}
NewValid(c, idx, db, rem) ==
    {id \in DOMAIN db : Test(c, db[id]) /\ (idx[id] = NoMsg \/ id \in Dropped(c, idx, db, rem))}
Orphans(c, db, rem) ==
    {m \in 1..Len(rem) : /\ IsLive(rem, m) /\ ByBot(rem[m]) /\ rem[m].chan = c
                         /\ rem[m].id \in DOMAIN db /\ db[rem[m].id] = None}
Calls(phase, c, idx, db, rem) ==
    CASE phase = "edit" -> {idx[id] : id \in Edits(c, idx, db)}
      [] phase = "prune" -> {idx[id] : id \in Dropped(c, idx, db, rem)}
      [] phase = "send" -> NewValid(c, idx, db, rem)
      [] phase = "fetch" -> Handles(idx)
      [] phase = "scan" -> Orphans(c, db, rem)
      [] phase = "refresh" -> Handles(idx)

Idle(op) == [op |-> op, phase |-> "idle", waiting |-> {}, flying |-> {}]

\* Channel 1 with one message per id: the entities 1..present exist, all shown or all
\* hidden, all modified or none, and the ids 1..indexed are in Affichan.messages.
InitFlight ==
    \E present \in 0..MaxFlightIds : \E indexed \in 0..MaxFlightIds :
    \E shown \in BOOLEAN : \E modified \in BOOLEAN :
        /\ database = [id \in FlightIds |->
                         IF id <= present
                         THEN [date |-> 1, shown |-> shown, modified |-> modified]
                         ELSE None]
        /\ messages = [c \in Chans |-> [id \in FlightIds |->
                         IF c = 1 /\ id <= indexed THEN id ELSE NoMsg]]
        /\ remote = [m \in FlightIds |-> [chan |-> 1, id |-> m]]
        /\ history = <<>>
        /\ update_affichans = FALSE
        /\ pending = {}
        /\ spawned = {}
        /\ allOk = TRUE
        /\ last = Idle("init")
        /\ archived = <<>>
        /\ maj = NoMaj
        /\ data_file = NoFile
        /\ lock = NoLock
        /\ sortIn = <<>>
        /\ sortOut = NotSorted

flightVars == <<database, history, update_affichans, messages, remote, pending, spawned,
                allOk, archived, sortIn, sortOut, maj,
                   data_file, lock>>

\* A phase hands its calls to its combinator.
BeginPhase(phase) ==
    /\ last.phase = "idle"
    /\ last' = [op |-> "begin", phase |-> phase,
                waiting |-> Calls(phase, 1, messages[1], database, remote), flying |-> {}]
    /\ UNCHANGED flightVars

\* The combinator starts the next call of its stream.
StartCall ==
    /\ last.phase # "idle"
    /\ last.waiting # {}
    /\ MayStart(Combinator(last.phase), Cardinality(last.flying))
    /\ LET m == CHOOSE x \in last.waiting : \A y \in last.waiting : x <= y
       IN  last' = [last EXCEPT !.op = "start", !.waiting = @ \ {m},
                                !.flying = @ \cup {m}]
    /\ UNCHANGED flightVars

\* The platform answers the call about m.
CompleteCall(m) ==
    /\ last.phase # "idle"
    /\ m \in last.flying
    /\ last' = [last EXCEPT !.op = "complete", !.flying = @ \ {m}]
    /\ UNCHANGED flightVars

\* Every call of the phase has been answered.
EndPhase ==
    /\ last.phase # "idle"
    /\ last.waiting = {} /\ last.flying = {}
    /\ last' = Idle("end")
    /\ UNCHANGED flightVars

NextFlight ==
    \/ \E phase \in Phases : BeginPhase(phase)
    \/ StartCall
    \/ \E m \in FlightIds : CompleteCall(m)
    \/ EndPhase

SpecFlight == InitFlight /\ [][NextFlight]_vars

\* C25: in every phase of a channel's work at most 4 of the channel's calls are in
\* flight at the same time.
C25_AtMostFourInFlight == Cardinality(last.flying) <= 4

\* ------------------------------------------------------------- SpecJoin
\* Bot::update_affichans future by future. try_join_all polls one future per channel,
\* the channel's Affichan::update, which yields at its two awaits: the join_all of the
\* edits and the try_collect of the sends. Between two awaits a future runs without
\* yielding. try_join_all returns at the first Err and drops the futures that have not
\* returned. The position of each future is followed in last.pc:
\*   "edit"     awaiting the edits of _edit_messages_if_modified
\*   "send"     awaiting the sends: last.queue[c] not yet received by the platform,
\*              last.sent[c] received
\*   "done"     returned Ok
\*   "failed"   returned Err
\*   "dropped"  dropped by try_join_all before it returned
\* The bot's lock is held for the whole call: nothing else touches the bot meanwhile.
JoinIdle == last.op # "join"

\* What the future of channel c does once its edits are answered, up to its next await:
\* the retain, the spawned deletion, the stream of sends; nothing to send, it extends
\* Affichan.messages with nothing and returns Ok.
AfterEdits(c, idx, db, rem, order) ==
    LET edit_fails == _edit_messages_if_modified(c, idx, db, rem)
        keep == Keep(c, idx, db, edit_fails)
        retained == Retained(c, idx, db, rem)
        toSend == SendOrder(c, retained, db, order)
    IN  [ idx |-> retained,
          deleted |-> {idx[id] : id \in {i \in Ids : idx[i] # NoMsg} \ keep},
          queue |-> [i \in 1..Len(toSend) |-> toSend[i].id],
          pc |-> IF Len(toSend) = 0 THEN "done" ELSE "send" ]

\* The first poll of try_join_all: every future runs to its first await. A channel
\* that has an edit to make awaits it; the others go on to their sends.
JoinBegin ==
    /\ JoinIdle
    /\ \E order \in Orders(database) :
         LET first == [c \in Chans |->
                         IF EditSet(c, messages[c], database) # {}
                         THEN [idx |-> messages[c], deleted |-> {}, queue |-> <<>>,
                               pc |-> "edit"]
                         ELSE AfterEdits(c, messages[c], database, remote, order)]
         IN  /\ messages' = [c \in Chans |-> first[c].idx]
             /\ spawned' = spawned \cup UNION {first[c].deleted : c \in Chans}
             /\ last' = [op |-> "join", res |-> "none", base |-> Len(remote),
                         pc |-> [c \in Chans |-> first[c].pc],
                         queue |-> [c \in Chans |-> first[c].queue],
                         sent |-> [c \in Chans |-> <<>>]]
    /\ UNCHANGED <<database, history, update_affichans, remote, pending, allOk, archived,
                   sortIn, sortOut, maj, data_file, lock>>

\* The edits of channel c are answered: its future goes on to its sends.
JoinEdited(c) ==
    /\ last.op = "join" /\ last.pc[c] = "edit"
    /\ \E order \in Orders(database) :
         LET a == AfterEdits(c, messages[c], database, remote, order)
         IN  /\ messages' = [messages EXCEPT ![c] = a.idx]
             /\ spawned' = spawned \cup a.deleted
             /\ last' = [last EXCEPT !.pc[c] = a.pc, !.queue[c] = a.queue]
    /\ UNCHANGED <<database, history, update_affichans, remote, pending, allOk, archived,
                   sortIn, sortOut, maj, data_file, lock>>

\* The platform receives the next message of channel c's stream.
JoinSend(c) ==
    /\ last.op = "join" /\ last.pc[c] = "send"
    /\ last.queue[c] # <<>>
    /\ Len(remote) < MaxMsgs
    /\ remote' = Append(remote, [chan |-> c, id |-> Head(last.queue[c])])
    /\ last' = [last EXCEPT !.queue[c] = Tail(@),
                            !.sent[c] = Append(@, [id |-> Head(last.queue[c]),
                                                   msg |-> NextMid(remote)])]
    /\ UNCHANGED <<database, history, update_affichans, messages, pending, spawned, allOk,
                   archived, sortIn, sortOut, maj, data_file, lock>>

\* The try_collect of channel c has every answer: self.messages.extend(...), Ok(()).
JoinExtend(c) ==
    /\ last.op = "join" /\ last.pc[c] = "send"
    /\ last.queue[c] = <<>>
    /\ messages' = [messages EXCEPT ![c] =
                      [id \in Ids |->
                         IF \E i \in 1..Len(last.sent[c]) : last.sent[c][i].id = id
                         THEN (CHOOSE x \in Range(last.sent[c]) : x.id = id).msg
                         ELSE @[id]]]
    /\ last' = [last EXCEPT !.pc[c] = "done"]
    /\ UNCHANGED <<database, history, update_affichans, remote, pending, spawned, allOk,
                   archived, sortIn, sortOut, maj, data_file, lock>>

\* A send of channel c fails: its update returns Err through the `?` of the
\* try_collect, try_join_all returns that Err and drops the futures still pending, and
\* update_affichans returns it through its own `?` before it touches the flags.
JoinFail(c) ==
    /\ last.op = "join" /\ last.pc[c] = "send"
    /\ last.queue[c] # <<>>
    /\ allOk' = FALSE
    /\ last' = [last EXCEPT !.op = "update_affichans", !.res = "err",
                            !.pc = [d \in Chans |->
                                      IF d = c THEN "failed"
                                      ELSE IF last.pc[d] = "done" THEN "done"
                                      ELSE "dropped"]]
    /\ UNCHANGED <<database, history, update_affichans, messages, remote, pending, spawned,
                   archived, sortIn, sortOut, maj, data_file, lock>>

\* Every future returned Ok: the flags are cleared and update_affichans returns Ok.
JoinEnd ==
    /\ last.op = "join"
    /\ \A c \in Chans : last.pc[c] = "done"
    /\ database' = ClearModified(database)
    /\ last' = [last EXCEPT !.op = "update_affichans", !.res = "ok"]
    /\ UNCHANGED <<history, update_affichans, messages, remote, pending, spawned, allOk,
                   archived, sortIn, sortOut, maj, data_file, lock>>

\* The owner of the database changes it while no update_affichans is running.
JoinInsert(id, e) == JoinIdle /\ DbInsert(id, e)
JoinModify(id, shown) == JoinIdle /\ DbModify(id, shown)
JoinRemove(id) == JoinIdle /\ DbRemove(id)

NextJoin ==
    \/ JoinBegin
    \/ \E c \in Chans : JoinEdited(c)
    \/ \E c \in Chans : JoinSend(c)
    \/ \E c \in Chans : JoinExtend(c)
    \/ \E c \in Chans : JoinFail(c)
    \/ JoinEnd
    \/ \E id \in 1..MaxInsertId : \E e \in Inserted : JoinInsert(id, e)
    \/ \E id \in Ids : \E shown \in BOOLEAN : JoinModify(id, shown)
    \/ \E id \in Ids : JoinRemove(id)

SpecJoin == Init /\ [][NextJoin]_vars

\* C35: when update fails in one channel during update_affichans, the update of every
\* other channel has run to completion when the call returns, and each of those
\* channels then satisfies coverage and exclusion with every message it sent recorded
\* in its Affichan.messages.
C35_ChannelsAreIndependent ==
    (last.op = "update_affichans" /\ last.res = "err") =>
        \A c \in Chans : last.pc[c] # "failed" =>
            /\ last.pc[c] = "done"
            /\ \A id \in Ids : Test(c, database[id]) => messages[c][id] # NoMsg
            /\ \A id \in Ids : messages[c][id] # NoMsg => Test(c, database[id])
            /\ \A m \in SentIn(c) : messages[c][remote[m].id] = m

\* ------------------------------------------------------------- SpecLock
\* The maj command beside the other entry points. Each action is one hold of the
\* Bot's mutex: the guard of a `ctx.data().lock().await` is dropped at the end of the
\* statement (of the condition, for the `if`), so maj takes the mutex anew at each of
\* its statements and any other entry point may take it in between.
Taille(db) == Cardinality({id \in DOMAIN db : db[id] # None})

\* let taille_ancienne = ctx.data().lock().await.database.len();
MajReadLen ==
    /\ maj.pc = "idle"
    /\ maj' = [pc |-> "read", taille_ancienne |-> Taille(database)]
    /\ last' = Quiet("maj")
    /\ UNCHANGED <<database, history, update_affichans, messages, remote, pending, spawned,
                   allOk, archived, sortIn, sortOut, data_file, lock>>

\* T::maj_rss(ctx.data()).await?: the owner's code takes the mutex and inserts the
\* entity the feed brought under id, or finds nothing new (id = 0).
MajRss(id, e) ==
    /\ maj.pc = "read"
    /\ id # 0 => database[id] = None
    /\ database' = IF id = 0 THEN database ELSE [database EXCEPT ![id] = e]
    /\ maj' = [maj EXCEPT !.pc = "fetched"]
    /\ last' = Quiet("maj") @@ [fed |-> id # 0]
    /\ UNCHANGED <<history, update_affichans, messages, remote, pending, spawned, allOk,
                   archived, sortIn, sortOut, data_file, lock>>

\* T::maj_rss(ctx.data()).await?: the owner's code takes the mutex and gives the
\* entity id the value of its field the feed brought, flagging it modified.
MajRssModify(id, shown) ==
    /\ maj.pc = "read"
    /\ database[id] # None
    /\ database[id].shown # shown
    /\ database' = [database EXCEPT ![id] = [@ EXCEPT !.shown = shown, !.modified = TRUE]]
    /\ maj' = [maj EXCEPT !.pc = "fetched"]
    /\ last' = Quiet("maj") @@ [fed |-> TRUE]
    /\ UNCHANGED <<history, update_affichans, messages, remote, pending, spawned, allOk,
                   archived, sortIn, sortOut, data_file, lock>>

\* if taille_ancienne != ctx.data().lock().await.database.len()
MajCompare ==
    /\ maj.pc = "fetched"
    /\ maj' = IF maj.taille_ancienne # Taille(database)
              THEN [maj EXCEPT !.pc = "changed"] ELSE NoMaj
    /\ last' = Quiet("maj")
    /\ UNCHANGED <<database, history, update_affichans, messages, remote, pending, spawned,
                   allOk, archived, sortIn, sortOut, data_file, lock>>

\* ctx.data().lock().await.update_affichans(..).await?
MajUpdate ==
    /\ maj.pc = "changed"
    /\ RunUpdateAffichans(MaxMsgs, [op |-> "maj"])
    /\ maj' = NoMaj

NextLock ==
    \/ MajReadLen
    \/ \E id \in 0..MaxInsertId : \E e \in Inserted : MajRss(id, e)
    \/ \E id \in 1..MaxInsertId : \E shown \in BOOLEAN : MajRssModify(id, shown)
    \/ MajCompare
    \/ MajUpdate
    \/ \E id \in 1..MaxInsertId : \E e \in Inserted : DbInsert(id, e)
    \/ \E id \in Ids : DbRemove(id)
    \/ UpdateAffichans

SpecLock == Init /\ [][NextLock]_vars

\* C27: an entry point holds the lock from its first access to the Bot to its last:
\* once the maj command has read the size of the database, every access to the Bot is
\* the command's own until it has finished.
C27_MajHoldsTheLock == [][maj.pc # "idle" => maj'.pc # maj.pc]_vars

\* C38: whenever the maj_rss of the maj command has changed the database (last.fed),
\* be it without changing the number of its entities, the command goes on to
\* update_affichans before it completes. The formula looks at the commands whose
\* comparison follows their maj_rss with no other entry point in between.
C38_MajUpdatesAfterAnyChange ==
    [][(maj.pc = "fetched" /\ last.op = "maj" /\ last.fed /\ maj' # maj)
          => maj'.pc = "changed"]_vars

\* ---------------------------------------------------------- SpecStartup
\* The data file is unreadable as YAML (YamlLoader::load_from_str returns an error), or
\* is a document with the key entries, NotArray or the array of the saved entities,
\* and the key affichans, the saved data of each channel. An entry is [id, obj] or one
\* that Object::from_yaml rejects.
Unparsable == [kind |-> "unparsable"]
Rejected == [rejected |-> TRUE]
Document(entries, affichans) ==
    [kind |-> "yaml", entries |-> entries, affichans |-> affichans]

\* Object::serialize and Object::from_yaml, the owner's: the flag modified is not saved.
serialize(id, obj) == [id |-> id, obj |-> [date |-> obj.date, shown |-> obj.shown]]
from_yaml(entry) ==
    [date |-> entry.obj.date, shown |-> entry.obj.shown, modified |-> FALSE]

\* Affichan::save: the pairs (id, message_id) of the index.
RECURSIVE PairsFrom(_, _)
PairsFrom(idx, id) ==
    IF id \notin DOMAIN idx THEN <<>>
    ELSE (IF idx[id] = NoMsg THEN <<>> ELSE <<[id |-> id, message_id |-> idx[id]]>>)
         \o PairsFrom(idx, id + 1)
\* A save that writes each pair with its two values exchanged.
AffichanSave_exchanged(idx) ==
    Array([i \in 1..Len(PairsFrom(idx, 1)) |->
             [id |-> PairsFrom(idx, 1)[i].message_id, message_id |-> PairsFrom(idx, 1)[i].id]])

\* The ids of the model are far below 2^63: `as i64` in save and `as u64` in
\* _load_from_save keep their value.
AffichanSave(idx) == Array(PairsFrom(idx, 1))

\* Bot::save: what it writes to the data file, the database iterated in the order
\* `order`.
save(db, msgs, order) ==
    Document(Array([i \in 1..Len(order) |-> serialize(order[i], db[order[i]])]),
             [c \in Chans |-> AffichanSave(msgs[c])])

\* _load_database: an error when entries is not an array, a panic when from_yaml
\* rejects an entry, else the map of the entries by id, a later entry replacing an
\* earlier one of the same id.
NoDatabase == [id \in Ids |-> None]
_load_database(data) ==
    IF data.entries.kind # "array" THEN [res |-> "err", db |-> NoDatabase]
    ELSE LET entries == data.entries.entries
         IN  IF \E i \in 1..Len(entries) : entries[i] = Rejected
             THEN [res |-> "panic", db |-> NoDatabase]
             ELSE [res |-> "ok",
                   db |-> [id \in Ids |->
                            IF \E i \in 1..Len(entries) : entries[i].id = id
                            THEN from_yaml(entries[CHOOSE i \in 1..Len(entries) :
                                     /\ entries[i].id = id
                                     /\ \A j \in (i + 1)..Len(entries) : entries[j].id # id])
                            ELSE None]]

\* The files the bot can find when it starts: none, an unreadable one, and documents
\* of at most MaxFileEntries entries whose affichans hold what channel 1 saved.
FileEntries == {Rejected} \cup {serialize(id, [date |-> 1, shown |-> TRUE]) : id \in 1..MaxInsertId}
DataFiles ==
    {NoFile, Unparsable} \cup
    {Document(e, [c \in Chans |-> IF c = 1 THEN a ELSE NoSave]) :
        e \in {NotArray} \cup {Array(q) : q \in UNION {[1..n -> FileEntries] : n \in 0..MaxFileEntries}},
        a \in {NoSave, Array(<<>>), Array(<<[id |-> 1, message_id |-> 1]>>)}}

\* Bot::default, before setup: the platform holds the message channel 1 shows for
\* entity 1, alone or with one for entity MaxId.
InitStartup ==
    /\ database = NoDatabase
    /\ history = <<>>
    /\ update_affichans = FALSE
    /\ messages = [c \in Chans |-> NoIndex]
    /\ remote \in {<<[chan |-> 1, id |-> 1]>>,
                   <<[chan |-> 1, id |-> 1], [chan |-> 1, id |-> MaxId]>>}
    /\ pending = {}
    /\ spawned = {}
    /\ allOk = TRUE
    /\ data_file \in DataFiles
    /\ lock = NoLock
    /\ last = [op |-> "init", res |-> "ok", read |-> data_file, data |-> None]
    /\ archived = <<>>
    /\ maj = NoMaj
    /\ sortIn = <<>>
    /\ sortOut = NotSorted

\* Bot::setup up to the creation of the framework: the file is read and parsed, an
\* unreadable or unparsable one leaving data = None; the database is loaded from data
\* when there is one and is a new one otherwise. An error and a panic end the program.
LoadFile ==
    /\ last.op = "init"
    /\ LET data == IF data_file.kind = "yaml" THEN data_file ELSE None
           l == IF data = None THEN [res |-> "ok", db |-> NoDatabase]
                ELSE _load_database(data)
       IN  /\ database' = l.db
           /\ last' = [op |-> "load", res |-> l.res, read |-> data_file, data |-> data]
    /\ UNCHANGED <<history, update_affichans, messages, remote, pending, spawned, allOk,
                   archived, sortIn, sortOut, maj, data_file, lock>>

\* The setup of the framework: every display channel's init, from the saved data the
\* document holds for it, from the channel when there is no document.
Ready ==
    /\ last.op = "load" /\ last.res = "ok"
    /\ LET saved == [c \in Chans |-> IF last.data = None THEN NoSave
                                     ELSE last.data.affichans[c]]
       IN  \E order \in Orders(database) :
           \E w \in InitFrom(1, [messages |-> messages, rem |-> remote, spawned |-> spawned,
                                 ran |-> {}, loaded |-> NoLoad], database, saved, order) :
              /\ Len(w.rem) <= MaxSetupMsgs
              /\ messages' = w.messages
              /\ remote' = w.rem
              /\ spawned' = w.spawned
              /\ allOk' = (w.ran = Chans)
              /\ last' = [op |-> "ready", res |-> IF w.ran = Chans THEN "ok" ELSE "err",
                          read |-> last.read, data |-> last.data,
                          scanned |-> {c \in Chans : saved[c] = NoSave}]
    /\ UNCHANGED <<database, history, update_affichans, pending, archived, sortIn, sortOut,
                   maj, data_file, lock>>

\* The event_handler on the MessageDelete of a message no display channel holds:
\* check_deletions finds nothing, the flag is not set, the bot is saved.
HandleOtherDelete ==
    /\ last.op \in {"ready", "event"} /\ last.res = "ok"
    /\ ~update_affichans
    /\ \E order \in Orders(database) : data_file' = save(database, messages, order)
    /\ last' = [op |-> "event", res |-> "ok", read |-> last.read, data |-> last.data,
                scanned |-> last.scanned]
    /\ UNCHANGED <<database, history, update_affichans, messages, remote, pending, spawned,
                   allOk, archived, sortIn, sortOut, maj, lock>>

NextStartup == LoadFile \/ Ready \/ HandleOtherDelete

SpecStartup == InitStartup /\ [][NextStartup]_vars

\* C28: a start with a corrupt data file (unparsable YAML, entries that is not an
\* array, an entry from_yaml rejects) halts: the bot does not go on with an empty or
\* partial database, scans no channel and does not write the file.
Corrupt(file) ==
    \/ file.kind = "unparsable"
    \/ /\ file.kind = "yaml"
       /\ \/ file.entries.kind # "array"
          \/ \E i \in 1..Len(file.entries.entries) : file.entries.entries[i] = Rejected
C28_CorruptFileHalts ==
    (last.op # "init" /\ Corrupt(last.read)) =>
        /\ last.op = "load" /\ last.res # "ok"
        /\ data_file = last.read
        /\ spawned = {}

\* ------------------------------------------------------------ SpecEvent
\* The event_handler on the InteractionCreate of a button of the existing entity id.
\* Object::buttons, the owner's, calls archive on the entity or not, changes its field
\* and returns Ok; handle_interaction then calls update_affichans and returns its
\* error; the handler calls update_affichans again when the flag is set, clears the
\* flag when that call returned Ok, and saves the bot.
HandleInteraction(id, shown, archives) ==
    /\ database[id] # None
    /\ archives => Len(history) < MaxEventArchives
    /\ history' = IF archives THEN archive(history, database, <<id>>) ELSE history
    /\ archived' = IF archives THEN PushFront(archived, database) ELSE archived
    /\ LET flag == update_affichans \/ archives
           changed == [database EXCEPT ![id] = [@ EXCEPT !.shown = shown, !.modified = TRUE]]
       IN  \E first \in update_affichans_outcomes(messages, remote, spawned, changed) :
           \E second \in
              IF AllRan(first) /\ flag
              THEN update_affichans_outcomes(first.messages, first.rem, first.spawned,
                                             ClearModified(changed))
              ELSE {first} :
           \E order \in Orders(changed) :
              LET ok == AllRan(first) /\ AllRan(second)
              IN  /\ Len(second.rem) <= MaxEventMsgs
                  /\ messages' = second.messages
                  /\ remote' = second.rem
                  /\ spawned' = second.spawned
                  /\ database' = IF AllRan(first) THEN ClearModified(changed) ELSE changed
                  /\ update_affichans' = (flag /\ ~ok)
                  /\ allOk' = (allOk /\ ok)
                  /\ data_file' = IF ok THEN save(database', messages', order) ELSE data_file
                  /\ last' = [op |-> "interaction", res |-> IF ok THEN "ok" ELSE "err",
                              base |-> Len(remote), archives |-> archives,
                              updates |-> IF AllRan(first) /\ flag THEN 2 ELSE 1]
    /\ UNCHANGED <<pending, sortIn, sortOut, maj, lock>>

NextEvent ==
    \/ \E id \in 1..MaxInsertId : \E shown \in BOOLEAN : \E archives \in BOOLEAN :
          HandleInteraction(id, shown, archives)
    \/ \E id \in 1..MaxInsertId : \E e \in Inserted : DbInsert(id, e)

SpecEvent == Init /\ [][NextEvent]_vars

\* C29: for each handled event the handler runs update_affichans at most once, and
\* the flag is false when the handler returns success.
C29_OneUpdatePerEvent ==
    last.op = "interaction" =>
        /\ last.updates <= 1
        /\ last.res = "ok" => ~update_affichans

\* ------------------------------------------------------------ SpecPages
\* An object of the list is [id, len]; the string_func given by the caller writes it
\* as len characters, each of them the id of the object. A String is the sequence of
\* its bytes.
string_func(obj) == [i \in 1..obj.len |-> obj.id]

\* pub fn create_paged_list(objects, string_func, char_limit): the last object is
\* popped and written, the pages of the others are built first; its string is a page
\* by itself when there is no page yet, is pushed as a new page when the last page and
\* it are longer than char_limit together, and is appended to the last page otherwise.
RECURSIVE create_paged_list(_, _)
create_paged_list(objects, char_limit) ==
    IF objects = <<>> THEN <<>>
    ELSE LET obj_str == string_func(Last(objects))
             rec == create_paged_list(Front(objects), char_limit)
         IN  IF rec = <<>> THEN <<obj_str>>
             ELSE IF Len(Last(rec)) + Len(obj_str) > char_limit
                  THEN Append(rec, obj_str)
                  ELSE Append(Front(rec), Last(rec) \o obj_str)

RECURSIVE Concat(_)
Concat(strings) == IF strings = <<>> THEN <<>> ELSE Head(strings) \o Concat(Tail(strings))

\* The lists given to create_paged_list: at most MaxPageObjects objects, each written
\* as at most MaxStrLen characters.
PageInputs ==
    UNION {{[i \in 1..n |-> [id |-> i, len |-> l[i]]] : l \in [1..n -> 0..MaxStrLen]}
           : n \in 0..MaxPageObjects}

InitPages ==
    /\ database = NoDatabase
    /\ history = <<>>
    /\ update_affichans = FALSE
    /\ messages = [c \in Chans |-> NoIndex]
    /\ remote = <<>>
    /\ pending = {}
    /\ spawned = {}
    /\ allOk = TRUE
    /\ \E objects \in PageInputs : \E char_limit \in 0..MaxCharLimit :
          last = [op |-> "init", objects |-> objects, char_limit |-> char_limit,
                  done |-> FALSE, pages |-> <<>>]
    /\ archived = <<>>
    /\ maj = NoMaj
    /\ data_file = NoFile
    /\ lock = NoLock
    /\ sortIn = <<>>
    /\ sortOut = NotSorted

CreatePagedList ==
    /\ ~last.done
    /\ last' = [last EXCEPT !.op = "create_paged_list", !.done = TRUE,
                            !.pages = create_paged_list(last.objects, last.char_limit)]
    /\ UNCHANGED <<database, history, update_affichans, messages, remote, pending, spawned,
                   allOk, archived, sortIn, sortOut, maj, data_file, lock>>

SpecPages == InitPages /\ [][CreatePagedList]_vars

\* C30: the pages create_paged_list returns, put end to end, are the strings of the
\* objects in the order of the list, and no page is longer than char_limit.
C30_PagesWithinLimit ==
    last.done =>
        /\ Concat(last.pages)
             = Concat([i \in 1..Len(last.objects) |-> string_func(last.objects[i])])
        /\ \A p \in 1..Len(last.pages) : Len(last.pages[p]) <= last.char_limit

\* --------------------------------------------------------- SpecCommands
\* The built-in commands that change the database: supprimer, renommer, doublons, up
\* and change_field. Each holds the Bot's lock from its first statement to its return.
\* The entities carry a name besides the fields above. Object::set_name and Object::up
\* are the bot's author's: set_name stores the name, up changes what its author
\* wants, and each raises the modified flag or not (flags), as its author wrote it.
Names == 1..MaxNames
Named == [date : 1..MaxInsertDate, shown : BOOLEAN, modified : {FALSE}, name : Names]

set_name(e, s, flags) == [e EXCEPT !.name = s, !.modified = @ \/ flags]
ObjectUp(e, flags) == [e EXCEPT !.modified = @ \/ flags]
\* F::set_for(object, &field) of the field the channels' tests read.
set_for(e, field) == [e EXCEPT !.shown = field]

\* A supprimer that removes the entity and archives afterwards.
supprimer_removeFirst(hist, db, object_id) ==
    [history |-> archive(hist, [db EXCEPT ![object_id] = None], <<object_id>>),
     database |-> [db EXCEPT ![object_id] = None]]

\* supprimer: bot.archive(vec![object_id]), bot.database.remove(&object_id).
supprimer(hist, db, object_id) ==
    [history |-> archive(hist, db, <<object_id>>),
     database |-> [db EXCEPT ![object_id] = None]]

\* renommer: bot.archive(vec![object_id]), the reply, set_name(nouveau_nom); the
\* command returns the error of the reply before it renames.
renommer(hist, db, object_id, nouveau_nom, flags, sent) ==
    [history |-> archive(hist, db, <<object_id>>),
     database |-> IF sent
                  THEN [db EXCEPT ![object_id] = set_name(@, nouveau_nom, flags)]
                  ELSE db]

\* The fold of doublons over database.iter(), in the map's iteration order: the ids
\* whose name an earlier entity of the iteration has.
Duplicates(db, order) ==
    LET dup(i) == \E j \in 1..(i - 1) : db[order[j]].name = db[order[i]].name
        at == SelectSeq([i \in 1..Len(order) |-> i], dup)
    IN  [k \in 1..Len(at) |-> order[at[k]]]

\* doublons: bot.archive(doublons.clone()), then database.remove of each.
doublons(hist, db, order) ==
    [history |-> archive(hist, db, Duplicates(db, order)),
     database |-> [id \in Ids |-> IF id \in Range(Duplicates(db, order)) THEN None
                                  ELSE db[id]]]

\* change_field: bot.archive(vec![object_id]), the reply and the log, whose error is
\* returned, then F::set_for(object, &field) and object.set_modified(true).
change_field(hist, db, object_id, field, sent) ==
    [history |-> archive(hist, db, <<object_id>>),
     database |-> IF sent
                  THEN [db EXCEPT ![object_id] =
                          [set_for(@, field) EXCEPT !.modified = TRUE]]
                  ELSE db]

\* What a command left for the next one to see: the entity it was given, whether it
\* got as far as changing the database (mutated) and whether the entity was flagged
\* modified once changed.
Cmd(op, res, object_id, changed) ==
    [op |-> op, res |-> res, id |-> object_id, base |-> Len(remote),
     mutated |-> changed # database,
     flagged |-> changed[object_id] # None /\ changed[object_id].modified]

\* The tail of supprimer and up: bot.update_affichans over the changed database,
\* whose error the command returns.
ThenUpdateAffichans(op, object_id, rem, changed) ==
    \E w \in update_affichans_outcomes(messages, rem, spawned, changed) :
        /\ Len(w.rem) <= MaxMsgs
        /\ messages' = w.messages
        /\ remote' = w.rem
        /\ spawned' = w.spawned
        /\ database' = IF AllRan(w) THEN ClearModified(changed) ELSE changed
        /\ allOk' = (allOk /\ AllRan(w))
        /\ last' = Cmd(op, IF AllRan(w) THEN "ok" ELSE "err", object_id, changed)

\* get_object found no entity: the command replies and returns.
NoObject(op, object_id) ==
    /\ last' = Cmd(op, "none", object_id, database)
    /\ UNCHANGED <<database, history, update_affichans, messages, remote, pending, spawned,
                   allOk>>

\* The supprimer command; sent: the reply was delivered.
Supprimer(object_id, sent) ==
    /\ Len(history) < MaxCmdArchives
    /\ IF database[object_id] = None THEN NoObject("supprimer", object_id)
       ELSE LET r == supprimer(history, database, object_id)
            IN  /\ history' = r.history
                /\ update_affichans' = TRUE
                /\ IF sent
                   THEN ThenUpdateAffichans("supprimer", object_id, remote, r.database)
                   ELSE /\ database' = r.database
                        /\ last' = Cmd("supprimer", "err", object_id, r.database)
                        /\ UNCHANGED <<messages, remote, spawned, allOk>>
                /\ UNCHANGED pending
    /\ UNCHANGED <<archived, sortIn, sortOut, maj, data_file, lock>>

\* The renommer command.
Renommer(object_id, nouveau_nom, flags, sent) ==
    /\ Len(history) < MaxCmdArchives
    /\ IF database[object_id] = None THEN NoObject("renommer", object_id)
       ELSE LET r == renommer(history, database, object_id, nouveau_nom, flags, sent)
            IN  /\ history' = r.history
                /\ update_affichans' = TRUE
                /\ database' = r.database
                /\ last' = Cmd("renommer", IF sent THEN "ok" ELSE "err", object_id,
                               r.database)
                /\ UNCHANGED <<messages, remote, pending, spawned, allOk>>
    /\ UNCHANGED <<archived, sortIn, sortOut, maj, data_file, lock>>

\* The doublons command.
Doublons ==
    /\ Len(history) < MaxCmdArchives
    /\ \E order \in Orders(database) :
         LET r == doublons(history, database, order)
         IN  /\ history' = r.history
             /\ update_affichans' = TRUE
             /\ database' = r.database
             /\ last' = Cmd("doublons", "ok", 1, r.database)
    /\ UNCHANGED <<messages, remote, pending, spawned, allOk, archived, sortIn, sortOut,
                   maj, data_file, lock>>

\* The up command: Affichan::up in every channel that contains the entity, joined by
\* try_join_all, whose error is returned; then bot.archive, object.up(), the reply,
\* update_affichans. A channel's up fails when its message is gone; the up of the other
\* channels in `done` had deleted their message by then.
Up(object_id, flags, sent) ==
    /\ Len(history) < MaxCmdArchives
    /\ IF database[object_id] = None THEN NoObject("up", object_id)
       ELSE LET shown == {c \in Chans : messages[c][object_id] # NoMsg}
                live == {c \in shown : DeleteOk(remote, messages[c][object_id])}
            IN  \E done \in SUBSET live :
                LET rem == [m \in 1..Len(remote) |->
                              IF \E c \in done : messages[c][object_id] = m
                              THEN Dead ELSE remote[m]]
                    changed == [database EXCEPT ![object_id] = ObjectUp(@, flags)]
                IN  /\ live = shown => done = live
                    /\ pending' = pending \cup {messages[c][object_id] : c \in done}
                    /\ IF live # shown
                       THEN /\ remote' = rem
                            /\ last' = Cmd("up", "err", object_id, database)
                            /\ UNCHANGED <<database, history, update_affichans, messages,
                                           spawned, allOk>>
                       ELSE /\ history' = archive(history, database, <<object_id>>)
                            /\ update_affichans' = TRUE
                            /\ IF sent
                               THEN ThenUpdateAffichans("up", object_id, rem, changed)
                               ELSE /\ database' = changed
                                    /\ remote' = rem
                                    /\ last' = Cmd("up", "err", object_id, changed)
                                    /\ UNCHANGED <<messages, spawned, allOk>>
    /\ UNCHANGED <<archived, sortIn, sortOut, maj, data_file, lock>>

\* A command built on generic_commands::change_field.
CmdChangeField(object_id, field, sent) ==
    /\ Len(history) < MaxCmdArchives
    /\ IF database[object_id] = None THEN NoObject("change_field", object_id)
       ELSE LET r == change_field(history, database, object_id, field, sent)
            IN  /\ history' = r.history
                /\ update_affichans' = TRUE
                /\ database' = r.database
                /\ last' = Cmd("change_field", IF sent THEN "ok" ELSE "err", object_id,
                               r.database)
                /\ UNCHANGED <<messages, remote, pending, spawned, allOk>>
    /\ UNCHANGED <<archived, sortIn, sortOut, maj, data_file, lock>>

\* The update_affichans command.
CmdUpdateAffichans ==
    /\ ThenUpdateAffichans("update_affichans", 1, remote, database)
    /\ UNCHANGED <<history, update_affichans, pending, archived, sortIn, sortOut, maj,
                   data_file, lock>>

NextCommands ==
    \/ \E id \in 1..MaxInsertId : \E e \in Named : DbInsert(id, e)
    \/ \E id \in 1..MaxInsertId : \E sent \in BOOLEAN : Supprimer(id, sent)
    \/ \E id \in 1..MaxInsertId : \E s \in Names : \E flags, sent \in BOOLEAN :
          Renommer(id, s, flags, sent)
    \/ Doublons
    \/ \E id \in 1..MaxInsertId : \E flags, sent \in BOOLEAN : Up(id, flags, sent)
    \/ \E id \in 1..MaxInsertId : \E field, sent \in BOOLEAN : CmdChangeField(id, field, sent)
    \/ CmdUpdateAffichans

SpecCommands == Init /\ [][NextCommands]_vars

\* ---------------------------------------------- properties of SpecCommands
Mutating == {"supprimer", "renommer", "doublons", "up", "change_field"}

\* C36: capture before mutate. When supprimer, renommer, doublons, up or change_field
\* changes or removes an entity (otherwise than by the clearing of the flags of its
\* update_affichans), the newest batch of the history, pushed by the same command,
\* holds the entity as it was before the command.
C36_ArchiveBeforeMutation ==
    [][last'.op \in Mutating =>
        \A id \in Ids :
            (database'[id] # database[id] /\ database'[id] # ClearModified(database)[id]) =>
                /\ history' # history
                /\ \E i \in 1..Len(history'[1]) :
                      history'[1][i] = [id |-> id, ecrit |-> database[id]]]_vars

\* A command changed or removed an entity, and the newest batch holds the entity as it
\* no longer is.
C36_Witness ==
    /\ last.op \in Mutating /\ last.mutated
    /\ history # <<>>
    /\ \E i \in 1..Len(history[1]) :
          /\ history[1][i].id = last.id
          /\ history[1][i].ecrit # None
          /\ history[1][i].ecrit # database[last.id]

\* C37: when renommer, change_field or up has changed an entity, the entity is flagged
\* modified once changed, before the command releases the lock.
C37_ChangedEntityIsFlagged ==
    (last.op \in {"renommer", "change_field", "up"} /\ last.mutated) => last.flagged

\* ---------------------------------------------------------- SpecHandler
\* The Bot's mutex in the handling of an event and of a command check. The event_handler
\* closure of the framework and CommandData::check take the mutex, then call the
\* function of the bot's author (Bot.event_handler, Bot.command_checker), to which
\* they hand the DataType handle (data, ctx.data()), and await it with the guard
\* alive. The author's function takes the mutex itself (locks) or not. A task stands
\*   "idle"     not running
\*   "wants"    at a lock().await it has not got through
\*   "holds"    holding the guard
\*   "calls"    holding the guard, awaiting the author's function
\*   "called"   holding the guard, the author's function having returned Ok(true)
\*   "refused"  holding the guard, the author's function having returned Ok(false)
\*              or an error
\* A tokio Mutex is not re-entrant: lock().await completes only when no guard is alive.
heldVars == <<database, history, update_affichans, messages, remote, pending, spawned,
              allOk, last, archived, sortIn, sortOut, maj, data_file>>

\* An event reaches the framework, or a command is invoked and its check starts.
HandlerStart(t) ==
    /\ t \in Framework
    /\ lock.pc[t] = "idle"
    /\ lock' = [lock EXCEPT !.pc[t] = "wants"]
    /\ UNCHANGED heldVars

\* lock().await completes for task t.
HandlerAcquire(t) ==
    /\ lock.pc[t] = "wants"
    /\ lock.holder = "none"
    /\ lock' = [holder |-> t, pc |-> [lock.pc EXCEPT ![t] = "holds"]]
    /\ UNCHANGED heldVars

\* (bot.event_handler)(ctx, event, data).await, (bot.command_checker)(ctx).await: the
\* author's function starts by taking the mutex, or returns without taking it.
HandlerCall(t, locks, goes_on) ==
    /\ t \in Framework
    /\ lock.pc[t] = "holds"
    /\ lock' = [lock EXCEPT !.pc = IF locks
                                   THEN [@ EXCEPT ![t] = "calls", ![User(t)] = "wants"]
                                   ELSE [@ EXCEPT ![t] = IF goes_on THEN "called"
                                                         ELSE "refused"]]
    /\ UNCHANGED heldVars

\* Task t returns and its guard is dropped: the author's function that held the
\* mutex, to its caller; CommandData::check; the event_handler closure on Ok(false),
\* on an error, or on an event it has nothing to do for.
HandlerReturn(t) ==
    /\ IF t \in Framework THEN lock.pc[t] \in {"called", "refused"}
       ELSE lock.pc[t] = "holds"
    /\ lock' = [holder |-> "none",
                pc |-> [u \in Tasks |->
                          IF u = t THEN "idle"
                          ELSE IF t = User(u) THEN "called"
                          ELSE lock.pc[u]]]
    /\ UNCHANGED heldVars

\* The event_handler closure goes on with a MessageDelete event and returns.
HandlerMessageDelete(deleted_message_id) ==
    /\ lock.pc["event"] = "called"
    /\ OnMessageDelete(deleted_message_id, MaxEventMsgs)
    /\ lock' = [holder |-> "none", pc |-> [lock.pc EXCEPT !["event"] = "idle"]]

\* The body of a command, which takes the mutex for itself once its check returned.
HandlerInsert(id, e) == lock.holder = "none" /\ DbInsert(id, e)
HandlerUpdateAffichans == lock.holder = "none" /\ UpdateAffichansWithin(MaxEventMsgs)
HandlerExternalDelete(m) == ExternalDelete(m)

NextHandler ==
    \/ \E t \in Framework : HandlerStart(t)
    \/ \E t \in Tasks : HandlerAcquire(t)
    \/ \E t \in Framework : \E locks, goes_on \in BOOLEAN : HandlerCall(t, locks, goes_on)
    \/ \E t \in Tasks : HandlerReturn(t)
    \/ \E m \in 1..MaxEventMsgs : HandlerMessageDelete(m)
    \/ \E id \in 1..MaxInsertId : \E e \in Inserted : HandlerInsert(id, e)
    \/ HandlerUpdateAffichans
    \/ \E m \in 1..MaxEventMsgs : HandlerExternalDelete(m)

SpecHandler == Init /\ [][NextHandler]_vars

\* The runtime polls a task that can go on, and the platform answers every call: a
\* task that can get through its lock().await, call, continue or return does so.
SpecHandlerFair ==
    /\ SpecHandler
    /\ WF_vars(\E t \in Tasks : HandlerAcquire(t))
    /\ WF_vars(\E t \in Framework : \E locks, goes_on \in BOOLEAN :
                  HandlerCall(t, locks, goes_on))
    /\ WF_vars(\E t \in Tasks : HandlerReturn(t))

\* C39: the handling of an event or of a command check always releases the Bot's
\* mutex eventually, be it that Bot.event_handler or Bot.command_checker takes the
\* mutex itself through the handle it is given.
C39_LockIsReleased == (lock.holder # "none") ~> (lock.holder = "none")

\* --------------------------------------------------------- SpecSnapshot
\* One display channel over the restarts of the bot: Affichan::save gives the saved
\* data of the channel, the bot stops, and the new Affichan of the next start, whose
\* Affichan.messages is empty, runs init on that data: _load_from_save, then update.
Restart(c) ==
    \E order \in Orders(database) :
    \E r \in init(c, NoIndex, remote, database, AffichanSave(messages[c]), order) :
        /\ Len(r.rem) <= MaxChannelMsgs
        /\ messages' = [messages EXCEPT ![c] = r.idx]
        /\ remote' = r.rem
        /\ spawned' = spawned \cup r.deleted
        /\ allOk' = (allOk /\ r.res = "ok")
        /\ last' = [op |-> "restart", res |-> r.res, call |-> Call("restart", c, 0),
                    base |-> Len(remote), loaded |-> r.loaded]
        /\ UNCHANGED <<database, history, update_affichans, pending, archived, sortIn,
                       sortOut, maj, data_file, lock>>

NextSnapshot ==
    \/ AffichanUpdate(1)
    \/ Restart(1)
    \/ \E m \in 1..MaxChannelMsgs : ExternalDelete(m)
    \/ \E id \in 1..MaxInsertId : \E e \in Inserted : DbInsert(id, e)
    \/ \E id \in Ids : \E shown \in BOOLEAN : DbModify(id, shown)
    \/ \E id \in Ids : DbRemove(id)

SpecSnapshot == Init /\ [][NextSnapshot]_vars

\* C40: snapshot round trip. For a channel whose indexed messages all still exist on
\* the platform, _load_from_save applied to what Affichan::save produced returns Ok
\* with exactly the (entity id, message id) pairs Affichan.messages held.
C40_SnapshotRoundTrip ==
    [][(/\ last'.op = "restart"
        /\ \A id \in Ids : messages[last'.call.chan][id] # NoMsg =>
               FetchOk(remote, last'.call.chan, messages[last'.call.chan][id]))
          => /\ last'.loaded.res = "ok"
             /\ last'.loaded.idx = messages[last'.call.chan]]_vars

\* A restart loaded two pairs, one of them of an entity whose id is not the id of its
\* message.
C40_Witness ==
    /\ last.op = "restart" /\ last.loaded.res = "ok"
    /\ Cardinality({id \in Ids : last.loaded.idx[id] # NoMsg}) >= 2
    /\ \E id \in Ids : last.loaded.idx[id] \notin {NoMsg, id}

\* ------------------------------------------------------------- SpecSort
InitSort ==
    /\ IdleBot
    /\ sortIn \in SortInputs
    /\ sortOut = NotSorted

SortByDate ==
    /\ sortOut = NotSorted
    /\ sortOut' = [done |-> TRUE, res |-> sort_by_date(sortIn)]
    /\ UNCHANGED <<sortIn, botVars>>

NextSort == SortByDate

SpecSort == InitSort /\ [][NextSort]_vars

\* Descending by date: from most recent to oldest.
SortedByDateDesc(v) == \A i \in 1..Len(v) : \A j \in 1..Len(v) : i < j => v[i].date >= v[j].date
PermutationOf(v, w) == Len(v) = Len(w) /\ \A x \in Range(v) \cup Range(w) :
    Cardinality({i \in 1..Len(v) : v[i] = x}) = Cardinality({i \in 1..Len(w) : w[i] = x})

\* C6: sort_by_date returns, for every input vector (3 or more elements included), a
\* permutation of the input ordered from most recent to oldest (non-increasing date).
C6_SortByDateSortsDescending ==
    sortOut.done => PermutationOf(sortIn, sortOut.res) /\ SortedByDateDesc(sortOut.res)

====
